---- MODULE Spec2Model ----
(***************************************************************************)
(* Contour tile engine: LocalDemManager (tile orchestration over five      *)
(* AsyncCaches), ContourSplitter and the feature level computation.        *)
(***************************************************************************)
EXTENDS Integers, Sequences, FiniteSets, TLC

VARIABLES
  maxzoom,            \* LocalDemManager.maxzoom
  vectorEnabled,      \* vectorTileLoader.isEnabled()
  req,                \* the fetchContourTile calls and their outcome
  task,               \* the contour producers (one per contourCache miss)
  contourCache,       \* LocalDemManager.contourCache
  parsedCache,        \* LocalDemManager.parsedCache
  parseProducer,      \* position of the parsedCache producer of each DEM url
  tileCache,          \* LocalDemManager.tileCache
  net,                \* DEM network fetches in flight, per url
  vectorTileCache,    \* LocalDemManager.vectorTileCache
  vectorTileRawCache, \* LocalDemManager.vectorTileRawCache
  vnet,               \* vector-tile network fetches in flight, per url
  failures,           \* number of DEM fetch / decode failures injected so far
  splitter,           \* which ContourSplitter class runs (1: the first, 2: the second)
  isolines,           \* splitContours: isolines, as Object.entries lists them
  polygons,           \* splitContours: polygons
  extent,             \* splitContours: extent
  zoom,               \* splitContours: zoom
  result,             \* the SplitContoursResult, as Object.entries lists it
  levels,             \* createFeaturesFromIsolines: levels
  features,           \* the features createFeaturesFromIsolines returns
  options,            \* fetchContourTile: simplify, splitMode, elevationKey, levelKey
  simplifiedIsolines, \* fetchContourTile: simplifiedIsolines
  pc,                 \* position of the contour producer after the DEM stage
  vectorFetches,      \* fetchVectorTile calls the contour producer has made
  args,               \* the arguments of the function called on its own
  returned,           \* what that function returned
  virtualTile         \* fetchContourTile: virtualTile, during the resampling step

mvars == <<maxzoom, vectorEnabled, req, task, contourCache, parsedCache,
           parseProducer, tileCache, net, vectorTileCache, vectorTileRawCache,
           vnet, failures>>

\* the variables of the contour splitter and of the feature builder
svars == <<splitter, isolines, polygons, extent, zoom, result, levels, features,
           options, simplifiedIsolines, pc, vectorFetches>>

\* the variables of the contour producer after the DEM stage
pvars == <<options, simplifiedIsolines, pc, vectorFetches>>

\* the variables of a function that is called on its own
fvars == <<args, returned, virtualTile>>

vars == <<mvars, svars, fvars>>

(***************************************************************************)
(* Bounds                                                                  *)
(***************************************************************************)
MaxRequests == 2

\* DEM fetches or decodes that may fail in one behaviour
MaxFailures == 1

Requests == 1..MaxRequests

\* zoom levels of the DEM source (maxzoom is one of them)
ZoomLevels == {0, 1}

RECURSIVE Pow2(_)
Pow2(n) == IF n <= 0 THEN 1 ELSE 2 * Pow2(n - 1)

Min(a, b) == IF a <= b THEN a ELSE b

TilesAt(z) == {<<z, x, y>> : x \in 0..(Pow2(z) - 1), y \in 0..(Pow2(z) - 1)}

\* every DEM tile (= DEM url) of the pyramid
DemTiles == UNION {TilesAt(z) : z \in ZoomLevels}

\* the tiles contour requests ask for: with maxzoom = 1 the neighborhood of
\* 2/0/0 spans the DEM tiles 1/0/0 (center) and 1/1/0
ReqTiles == {<<0, 0, 0>>, <<2, 0, 0>>}

\* a neighbor slot outside the north-south domain
Undef == <<>>

\* request options: levels (absent, empty or thresholds), splitMode, overzoom
OptionSet ==
  { [hasLevels |-> FALSE, levels |-> <<>>, splitMode |-> "classic", overzoom |-> 0],
    [hasLevels |-> TRUE, levels |-> <<>>, splitMode |-> "classic", overzoom |-> 0],
    [hasLevels |-> TRUE, levels |-> <<100, 500>>, splitMode |-> "classic", overzoom |-> 0],
    [hasLevels |-> TRUE, levels |-> <<100, 500>>, splitMode |-> "no-split", overzoom |-> 0] }

(***************************************************************************)
(* AsyncCache: an entry is absent, pending (producer running, with a       *)
(* count of waiters) or done.                                              *)
(***************************************************************************)
CacheAbsent == [st |-> "absent", waiting |-> 0, val |-> "none"]

\* n waiters of e withdraw at once
Removed(e) == [e EXCEPT !.st = "absent", !.waiting = 0, !.val = "none"]

\* get(): n waiters join; a missing entry is created pending
CacheGet(e, n) ==
  IF e.st = "absent" THEN [e EXCEPT !.st = "pending", !.waiting = n]
  ELSE IF e.st = "pending" THEN [e EXCEPT !.waiting = @ + n]
  ELSE e

\* a get() on this entry invokes the producer
CacheMiss(e) == e.st = "absent"

\* the withdrawal of n waiters leaves none: the producer is cancelled
CacheDrops(e, n) == e.st = "pending" /\ e.waiting - n <= 0

\* n waiters of a pending entry withdraw: at zero the entry is removed
CacheWithdraw(e, n) ==
  IF e.st # "pending" THEN e
  ELSE IF CacheDrops(e, n) THEN Removed(e)
  ELSE [e EXCEPT !.waiting = @ - n]

\* the producer resolved: the value is kept and the waiters are released
CacheResolve(e, v) == [e EXCEPT !.st = "done", !.waiting = 0, !.val = v]

\* the producer failed: the entry is removed
CacheReject(e) == Removed(e)

(***************************************************************************)
(* LocalDemManager: pure helpers                                           *)
(***************************************************************************)
\* variant: only a missing levels array short-circuits
NoLevelsMissingOnly(o) == ~o.hasLevels

\* no levels means less than min zoom with levels specified
NoLevels(o) == ~o.hasLevels \/ Len(o.levels) = 0

\* the contourCache key: z/x/y/options
ContourKey(t, o) == <<t, o>>

\* fetchDem: the DEM tile fetched for contour tile (z, x, y)
FetchDemTile(z, x, y, o) ==
  LET demZoom == Min(z - o.overzoom, maxzoom)
      subZ == z - demZoom
      div  == Pow2(subZ)
  IN  <<demZoom, x \div div, y \div div>>

\* the nine neighbor slots of fetchContourTile, row-major, center at 5 (1-based)
NeighborSlots(t, o) ==
  LET z == t[1]
      x == t[2]
      y == t[3]
      max == Pow2(z)
  IN  [i \in 1..9 |->
        LET iy == y - 1 + ((i - 1) \div 3)
            ix == x - 1 + ((i - 1) % 3)
        IN  IF iy < 0 \/ iy >= max THEN Undef
            ELSE FetchDemTile(z, (ix + max) % max, iy, o)]

CenterSlot == 5

\* number of fetchDem calls of one producer that address DEM url u
Mult(t, o, u) == Cardinality({i \in 1..9 : NeighborSlots(t, o)[i] = u})

ContourKeys == {ContourKey(t, o) : t \in ReqTiles, o \in OptionSet}

NoTile == <<0, 0, 0>>
NoOpt == [hasLevels |-> FALSE, levels |-> <<>>, splitMode |-> "classic", overzoom |-> 0]

FreeTask ==
  [phase |-> "free", tile |-> NoTile, opt |-> NoOpt, aborted |-> FALSE,
   dem |-> [u \in DemTiles |-> "none"], vec |-> "none", encoded |-> FALSE]

NoContourEntry == [st |-> "absent", waiting |-> 0, val |-> "none", task |-> 0]

NewReq == [kind |-> "none", st |-> "new", tile |-> NoTile, opt |-> NoOpt, task |-> 0, out |-> "none"]

\* the DEM tiles an outside consumer (the shared DEM protocol) asks fetchTile for
DirectTiles == {<<0, 0, 0>>, <<1, 0, 0>>}

\* the defaults of the options fetchContourTile destructures
DefaultOptions ==
  [simplify |-> 1, splitMode |-> "classic", elevationKey |-> "ele", levelKey |-> "level"]

\* no contour producer is followed past its DEM stage
ProducerIdle ==
  /\ options = DefaultOptions
  /\ simplifiedIsolines = <<>>
  /\ pc = "idle"
  /\ vectorFetches = 0

\* no function is called on its own
FunctionIdle ==
  /\ args = <<>>
  /\ returned = <<>>
  /\ virtualTile = <<>>

\* no splitContours / createFeaturesFromIsolines call is under way
SplitterIdle ==
  /\ splitter = 0
  /\ isolines = <<>>
  /\ polygons = <<>>
  /\ extent = 0
  /\ zoom = 0
  /\ result = <<>>
  /\ levels = <<>>
  /\ features = <<>>

\* a LocalDemManager after construction: no call made, every cache empty
CachesEmpty ==
  /\ req = [r \in Requests |-> NewReq]
  /\ task = [p \in Requests |-> FreeTask]
  /\ contourCache = [k \in ContourKeys |-> NoContourEntry]
  /\ parsedCache = [u \in DemTiles |-> CacheAbsent]
  /\ parseProducer = [u \in DemTiles |-> "none"]
  /\ tileCache = [u \in DemTiles |-> CacheAbsent]
  /\ net = [u \in DemTiles |-> 0]
  /\ vectorTileCache = [t \in ReqTiles |-> CacheAbsent]
  /\ vectorTileRawCache = [t \in ReqTiles |-> CacheAbsent]
  /\ vnet = [t \in ReqTiles |-> 0]
  /\ failures = 0

Init ==
  /\ SplitterIdle
  /\ ProducerIdle
  /\ maxzoom \in ZoomLevels
  /\ vectorEnabled \in BOOLEAN
  /\ CachesEmpty
  /\ FunctionIdle

(***************************************************************************)
(* fetchAndParseTile / fetchTile: the cache chain of DEM url u.            *)
(* m[u] is the number of fetchDem calls that address u in one step.        *)
(***************************************************************************)
\* parsedCache.get(url, ...) invokes its producer
StartsParse(m, u) == m[u] > 0 /\ CacheMiss(parsedCache[u])

\* variant: fetchTile calls getTile without consulting tileCache
StartsFetchUncached(m, u) == StartsParse(m, u)

\* the parsedCache producer calls fetchTile, whose tileCache.get(url, ...)
\* invokes getTile only on a miss
StartsFetch(m, u) == StartsParse(m, u) /\ CacheMiss(tileCache[u])

ParsedAfterGet(m) ==
  [u \in DemTiles |-> IF m[u] > 0 THEN CacheGet(parsedCache[u], m[u]) ELSE parsedCache[u]]

ProducerAfterGet(m) ==
  [u \in DemTiles |->
     IF StartsParse(m, u)
     THEN (IF tileCache[u].st = "done" THEN "decode" ELSE "fetch")
     ELSE parseProducer[u]]

TileAfterGet(m) ==
  [u \in DemTiles |-> IF StartsParse(m, u) THEN CacheGet(tileCache[u], 1) ELSE tileCache[u]]

NetAfterGet(m) ==
  [u \in DemTiles |-> IF StartsFetch(m, u) THEN net[u] + 1 ELSE net[u]]

\* the state of the view fetchDem returns for url u
DemView(m, u) ==
  IF m[u] = 0 THEN "none"
  ELSE IF parsedCache[u].st = "done" THEN "ok"
  ELSE "pending"

(***************************************************************************)
(* w[u] waiters of parsedCache[u] withdraw (their abort controller fired)  *)
(***************************************************************************)
ParsedDrops(w, u) == w[u] > 0 /\ CacheDrops(parsedCache[u], w[u])

\* variant: the parsedCache producer hands fetchTile a controller that is
\* never aborted
TileNeverWithdrawn(w, u) == FALSE

\* the cancelled parsedCache producer was waiting on tileCache
TileWithdrawn(w, u) == ParsedDrops(w, u) /\ parseProducer[u] = "fetch"

ParsedAfterWithdraw(w) ==
  [u \in DemTiles |-> IF w[u] > 0 THEN CacheWithdraw(parsedCache[u], w[u]) ELSE parsedCache[u]]

ProducerAfterWithdraw(w) ==
  [u \in DemTiles |-> IF ParsedDrops(w, u) THEN "none" ELSE parseProducer[u]]

TileAfterWithdraw(w) ==
  [u \in DemTiles |-> IF TileWithdrawn(w, u) THEN CacheWithdraw(tileCache[u], 1) ELSE tileCache[u]]

NetAfterWithdraw(w) ==
  [u \in DemTiles |->
     IF TileWithdrawn(w, u) /\ CacheDrops(tileCache[u], 1) THEN net[u] - 1 ELSE net[u]]

(***************************************************************************)
(* fetchContourTile(z, x, y, options, parentAbortController)               *)
(***************************************************************************)
\* the producer of a contourCache miss: nine fetchDem calls, then await all
StartProducer(r, t, o) ==
  LET m == [u \in DemTiles |-> Mult(t, o, u)]
      key == ContourKey(t, o)
  IN  /\ task' = [task EXCEPT ![r] =
                    [phase |-> "dem", tile |-> t, opt |-> o, aborted |-> FALSE,
                     dem |-> [u \in DemTiles |-> DemView(m, u)],
                     vec |-> "none", encoded |-> FALSE]]
      /\ contourCache' = [contourCache EXCEPT ![key] = [CacheGet(@, 1) EXCEPT !.task = r]]
      /\ parsedCache' = ParsedAfterGet(m)
      /\ parseProducer' = ProducerAfterGet(m)
      /\ tileCache' = TileAfterGet(m)
      /\ net' = NetAfterGet(m)

FetchContourTile(r) ==
  /\ req[r].st = "new"
  /\ \A q \in Requests : q < r => req[q].st # "new"
  /\ \E t \in ReqTiles, o \in OptionSet :
       LET key == ContourKey(t, o)
           e == contourCache[key]
           base == [kind |-> "contour", st |-> "waiting", tile |-> t, opt |-> o,
                    task |-> 0, out |-> "none"]
       IN  IF NoLevels(o)
           THEN /\ req' = [req EXCEPT ![r] = [base EXCEPT !.st = "done", !.out = "empty"]]
                /\ UNCHANGED <<task, contourCache, parsedCache, parseProducer, tileCache,
                               net>>
           ELSE IF e.st = "done"
           THEN /\ req' = [req EXCEPT ![r] = [base EXCEPT !.st = "done", !.out = e.val,
                                                           !.task = e.task]]
                /\ UNCHANGED <<task, contourCache, parsedCache, parseProducer, tileCache,
                               net>>
           ELSE IF e.st = "pending"
           THEN /\ req' = [req EXCEPT ![r] = [base EXCEPT !.task = e.task]]
                /\ contourCache' = [contourCache EXCEPT ![key] = CacheGet(@, 1)]
                /\ UNCHANGED <<task, parsedCache, parseProducer, tileCache, net>>
           ELSE /\ req' = [req EXCEPT ![r] = [base EXCEPT !.task = r]]
                /\ StartProducer(r, t, o)
  /\ UNCHANGED <<svars, fvars>>
  /\ UNCHANGED <<maxzoom, vectorEnabled, vectorTileCache, vectorTileRawCache, vnet,
                 failures>>

(***************************************************************************)
(* fetchTile(z, x, y, parentAbortController) called by an outside consumer *)
(***************************************************************************)
FetchTile(r) ==
  /\ req[r].st = "new"
  /\ \A q \in Requests : q < r => req[q].st # "new"
  /\ \E u \in DirectTiles :
       LET e == tileCache[u]
           base == [kind |-> "tile", st |-> "waiting", tile |-> u, opt |-> NoOpt,
                    task |-> 0, out |-> "none"]
       IN  IF e.st = "done"
           THEN /\ req' = [req EXCEPT ![r] = [base EXCEPT !.st = "done", !.out = "response"]]
                /\ UNCHANGED <<tileCache, net>>
           ELSE /\ req' = [req EXCEPT ![r] = base]
                /\ tileCache' = [tileCache EXCEPT ![u] = CacheGet(@, 1)]
                /\ net' = [net EXCEPT ![u] = IF CacheMiss(e) THEN @ + 1 ELSE @]
  /\ UNCHANGED <<svars, fvars>>
  /\ UNCHANGED <<maxzoom, vectorEnabled, task, contourCache, parsedCache, parseProducer,
                 vectorTileCache, vectorTileRawCache, vnet, failures>>

(***************************************************************************)
(* Completion of the network fetch and of the image decode of DEM url u    *)
(***************************************************************************)
\* every view of parsedCache[u] that is still awaited settles as s
SettleDem(u, s) ==
  [p \in Requests |->
     IF task[p].dem[u] = "pending" THEN [task[p] EXCEPT !.dem[u] = s] ELSE task[p]]

\* outside consumers waiting on tileCache[u] receive st / out
SettleDirect(u, st, out) ==
  [q \in Requests |->
     IF req[q].kind = "tile" /\ req[q].st = "waiting" /\ req[q].tile = u
     THEN [req[q] EXCEPT !.st = st, !.out = out]
     ELSE req[q]]

\* variant: the parsedCache producer swallows the rejection of fetchTile
ParseCatchesFetchError(u) == FALSE

\* the parsedCache producer is suspended in `await self.fetchTile(...)`, which
\* is not guarded: a rejection of fetchTile rejects the producer
ParseAwaitsFetch(u) == parseProducer[u] = "fetch"

\* getTile resolves, rejects (bad response, network error) or withTimeout fires
FetchDone(u) ==
  /\ net[u] > 0
  /\ \E oc \in {"ok", "failed", "timeout"} :
       /\ oc # "ok" => failures < MaxFailures
       /\ net' = [net EXCEPT ![u] = @ - 1]
       /\ IF oc = "ok"
          THEN /\ tileCache' = [tileCache EXCEPT ![u] = CacheResolve(@, "response")]
               /\ req' = SettleDirect(u, "done", "response")
               /\ parseProducer' = [parseProducer EXCEPT ![u] =
                                      IF @ = "fetch" THEN "decode" ELSE @]
               /\ UNCHANGED <<parsedCache, task, failures>>
          ELSE /\ tileCache' = [tileCache EXCEPT ![u] = CacheReject(@)]
               /\ req' = SettleDirect(u, "failed", oc)
               /\ failures' = failures + 1
               /\ IF ParseAwaitsFetch(u)
                  THEN /\ parsedCache' = [parsedCache EXCEPT ![u] = CacheReject(@)]
                       /\ parseProducer' = [parseProducer EXCEPT ![u] = "none"]
                       /\ task' = SettleDem(u, "failed")
                  ELSE UNCHANGED <<parsedCache, parseProducer, task>>
  /\ UNCHANGED <<svars, fvars>>
  /\ UNCHANGED <<maxzoom, vectorEnabled, contourCache, vectorTileCache,
                 vectorTileRawCache, vnet>>

\* decodeImage resolves or rejects
DecodeDone(u) ==
  /\ parseProducer[u] = "decode"
  /\ \E oc \in {"ok", "failed"} :
       /\ oc # "ok" => failures < MaxFailures
       /\ parseProducer' = [parseProducer EXCEPT ![u] = "none"]
       /\ IF oc = "ok"
          THEN /\ parsedCache' = [parsedCache EXCEPT ![u] = CacheResolve(@, "dem")]
               /\ task' = SettleDem(u, "ok")
               /\ UNCHANGED failures
          ELSE /\ parsedCache' = [parsedCache EXCEPT ![u] = CacheReject(@)]
               /\ task' = SettleDem(u, "failed")
               /\ failures' = failures + 1
  /\ UNCHANGED <<svars, fvars>>
  /\ UNCHANGED <<maxzoom, vectorEnabled, req, contourCache, tileCache, net,
                 vectorTileCache, vectorTileRawCache, vnet>>

(***************************************************************************)
(* The contour producer after `await Promise.all(neighborPromises)`        *)
(***************************************************************************)
Needed(p) == {u \in DemTiles : task[p].dem[u] # "none"}

\* Promise.all resolves when every fetchDem resolved
AllResolved(p) == \A u \in Needed(p) : task[p].dem[u] = "ok"

\* Promise.all rejects as soon as one fetchDem rejects
AnyRejected(p) == \E u \in Needed(p) : task[p].dem[u] \in {"failed", "cancelled"}

\* the requests waiting on the entry producer p fills receive st / out
SettleWaiters(p, st, out) ==
  [q \in Requests |->
     IF req[q].kind = "contour" /\ req[q].st = "waiting" /\ req[q].task = p
     THEN [req[q] EXCEPT !.st = st, !.out = out]
     ELSE req[q]]

\* the producer returns val: the entry is completed unless it was cancelled
Resolve(p, val) ==
  IF task[p].aborted
  THEN UNCHANGED <<contourCache, req>>
  ELSE /\ contourCache' = [contourCache EXCEPT ![ContourKey(task[p].tile, task[p].opt)] =
                             CacheResolve(@, val)]
       /\ req' = SettleWaiters(p, "done", val)

\* the producer throws: the entry is removed and its waiters fail
Reject(p) ==
  IF task[p].aborted
  THEN UNCHANGED <<contourCache, req>>
  ELSE /\ contourCache' = [contourCache EXCEPT ![ContourKey(task[p].tile, task[p].opt)] =
                             NoContourEntry]
       /\ req' = SettleWaiters(p, "failed", "error")

\* variant: vectorTileLoader.isEnabled() is not consulted
WantsVectorUnconfigured(o) == o.splitMode = "classic"

\* the split step needs the companion vector tile
WantsVector(o) == o.splitMode # "no-split" /\ o.splitMode = "classic" /\ vectorEnabled

\* parseVectorTile: what the raw buffer parses to
ParseVectorTile(buf) == IF buf = "pbfPolys" THEN "polys" ELSE "nopolys"

\* fetchVectorTile(z, x, y, childAbortController) of producer p
FetchVectorTile(p) ==
  LET t == task[p].tile
      ve == vectorTileCache[t]
      re == vectorTileRawCache[t]
  IN  IF ve.st = "done"
      THEN /\ task' = [task EXCEPT ![p].phase = "vector", ![p].vec = ve.val]
           /\ UNCHANGED <<vectorTileCache, vectorTileRawCache, vnet>>
      ELSE IF ve.st = "pending"
      THEN /\ task' = [task EXCEPT ![p].phase = "vector", ![p].vec = "pending"]
           /\ vectorTileCache' = [vectorTileCache EXCEPT ![t] = CacheGet(@, 1)]
           /\ UNCHANGED <<vectorTileRawCache, vnet>>
      ELSE IF re.st = "done"
      THEN /\ task' = [task EXCEPT ![p].phase = "vector", ![p].vec = ParseVectorTile(re.val)]
           /\ vectorTileCache' = [vectorTileCache EXCEPT ![t] =
                                    CacheResolve(@, ParseVectorTile(re.val))]
           /\ UNCHANGED <<vectorTileRawCache, vnet>>
      ELSE /\ task' = [task EXCEPT ![p].phase = "vector", ![p].vec = "pending"]
           /\ vectorTileCache' = [vectorTileCache EXCEPT ![t] = CacheGet(@, 1)]
           /\ vectorTileRawCache' = [vectorTileRawCache EXCEPT ![t] = CacheGet(@, 1)]
           /\ vnet' = [vnet EXCEPT ![t] = IF CacheMiss(re) THEN @ + 1 ELSE @]

\* the views a finished producer no longer awaits: their waiters stay
\* counted in parsedCache until the entry settles
Abandon(d) == [u \in DemTiles |-> IF d[u] = "pending" THEN "zombie" ELSE d[u]]

ContourAfterDem(p) ==
  /\ task[p].phase = "dem"
  /\ \/ /\ AnyRejected(p)
        /\ task' = [task EXCEPT ![p].phase = "failed", ![p].dem = Abandon(@)]
        /\ Reject(p)
        /\ UNCHANGED <<vectorTileCache, vectorTileRawCache, vnet>>
     \/ /\ AllResolved(p)
        /\ IF task[p].aborted
           THEN \* isAborted(childAbortController): an empty buffer is returned
                /\ task' = [task EXCEPT ![p].phase = "done"]
                /\ Resolve(p, "empty")
                /\ UNCHANGED <<vectorTileCache, vectorTileRawCache, vnet>>
           ELSE IF WantsVector(task[p].opt)
           THEN /\ FetchVectorTile(p)
                /\ UNCHANGED <<contourCache, req>>
           ELSE /\ task' = [task EXCEPT ![p].phase = "done", ![p].encoded = TRUE]
                /\ Resolve(p, "bytesNormal")
                /\ UNCHANGED <<vectorTileCache, vectorTileRawCache, vnet>>
  /\ UNCHANGED <<svars, fvars>>
  /\ UNCHANGED <<maxzoom, vectorEnabled, parsedCache, parseProducer, tileCache, net, failures>>

(***************************************************************************)
(* Completion of the vector-tile fetch of tile t (fetchVectorTileRaw) and  *)
(* of the fetchVectorTile producer that parses it                          *)
(***************************************************************************)
SettleVector(t, s) ==
  [p \in Requests |->
     IF task[p].phase = "vector" /\ task[p].tile = t /\ task[p].vec = "pending"
     THEN [task[p] EXCEPT !.vec = s]
     ELSE task[p]]

\* what the raw producer returns: a bad response is an empty buffer
RawBuffer(oc) == IF oc = "notOk" THEN "empty" ELSE oc

VectorFetchDone(t) ==
  /\ vnet[t] > 0
  /\ \E oc \in {"pbfPolys", "pbfNoPolys", "notOk", "error"} :
       /\ vnet' = [vnet EXCEPT ![t] = @ - 1]
       /\ IF oc = "error"
          THEN /\ vectorTileRawCache' = [vectorTileRawCache EXCEPT ![t] = CacheReject(@)]
               /\ vectorTileCache' = [vectorTileCache EXCEPT ![t] = CacheReject(@)]
               /\ task' = SettleVector(t, "failed")
          ELSE /\ vectorTileRawCache' = [vectorTileRawCache EXCEPT ![t] =
                                           CacheResolve(@, RawBuffer(oc))]
               /\ vectorTileCache' = [vectorTileCache EXCEPT ![t] =
                                        CacheResolve(@, ParseVectorTile(RawBuffer(oc)))]
               /\ task' = SettleVector(t, ParseVectorTile(RawBuffer(oc)))
  /\ UNCHANGED <<svars, fvars>>
  /\ UNCHANGED <<maxzoom, vectorEnabled, req, contourCache, parsedCache, parseProducer,
                 tileCache, net, failures>>

\* the tile the producer encodes after `await this.fetchVectorTile(...)`
\* settled: split by the polygons, or every contour normal (no polygons,
\* or the catch branch)
SplitOutcome(v) == IF v = "polys" THEN "bytesSplit" ELSE "bytesNormal"

\* variant: no try / catch around `await this.fetchVectorTile(...)`
ContourAfterVectorUncaught(p) ==
  /\ task[p].phase = "vector"
  /\ task[p].vec \in {"polys", "nopolys", "failed", "cancelled"}
  /\ IF task[p].vec \in {"failed", "cancelled"}
     THEN /\ task' = [task EXCEPT ![p].phase = "failed"]
          /\ Reject(p)
     ELSE /\ task' = [task EXCEPT ![p].phase = "done", ![p].encoded = TRUE]
          /\ Resolve(p, SplitOutcome(task[p].vec))
  /\ UNCHANGED <<svars, fvars>>
  /\ UNCHANGED <<maxzoom, vectorEnabled, parsedCache, parseProducer, tileCache, net,
                 vectorTileCache, vectorTileRawCache, vnet, failures>>

ContourAfterVector(p) ==
  /\ task[p].phase = "vector"
  /\ task[p].vec \in {"polys", "nopolys", "failed", "cancelled"}
  /\ task' = [task EXCEPT ![p].phase = "done", ![p].encoded = TRUE]
  /\ Resolve(p, SplitOutcome(task[p].vec))
  /\ UNCHANGED <<svars, fvars>>
  /\ UNCHANGED <<maxzoom, vectorEnabled, parsedCache, parseProducer, tileCache, net,
                 vectorTileCache, vectorTileRawCache, vnet, failures>>

(***************************************************************************)
(* The caller aborts the controller it passed                              *)
(***************************************************************************)
\* variant: the caller's parentAbortController is threaded into the sub-fetches
ParentControllerFires(r, p, dropped) == r = p

\* the controller fetchContourTile threads into fetchDem and fetchVectorTile
\* is the producer's childAbortController: it fires when the entry is dropped
SubFetchControllerFires(r, p, dropped) == dropped

CancelContour(r) ==
  /\ req[r].kind = "contour"
  /\ req[r].st = "waiting"
  /\ LET key == ContourKey(req[r].tile, req[r].opt)
         e == contourCache[key]
         p == req[r].task
         dropped == CacheDrops(e, 1)
         fires == SubFetchControllerFires(r, p, dropped)
         t == task[p].tile
         w == [u \in DemTiles |->
                 IF fires /\ task[p].dem[u] = "pending"
                 THEN Mult(task[p].tile, task[p].opt, u) ELSE 0]
         vw == IF fires /\ task[p].phase = "vector" /\ task[p].vec = "pending" THEN 1 ELSE 0
         vdrop == vw > 0 /\ CacheDrops(vectorTileCache[t], 1)
         rdrop == vdrop /\ CacheDrops(vectorTileRawCache[t], 1)
     IN  /\ req' = [req EXCEPT ![r].st = "cancelled", ![r].out = "cancelled"]
         /\ contourCache' = [contourCache EXCEPT ![key] =
                               IF dropped THEN NoContourEntry ELSE CacheWithdraw(@, 1)]
         /\ task' = [task EXCEPT
                       ![p].aborted = @ \/ dropped,
                       ![p].dem = [u \in DemTiles |-> IF w[u] > 0 THEN "cancelled" ELSE @[u]],
                       ![p].vec = IF vw > 0 THEN "cancelled" ELSE @]
         /\ parsedCache' = ParsedAfterWithdraw(w)
         /\ parseProducer' = ProducerAfterWithdraw(w)
         /\ tileCache' = TileAfterWithdraw(w)
         /\ net' = NetAfterWithdraw(w)
         /\ vectorTileCache' = [vectorTileCache EXCEPT ![t] =
                                  IF vw > 0 THEN CacheWithdraw(@, 1) ELSE @]
         /\ vectorTileRawCache' = [vectorTileRawCache EXCEPT ![t] =
                                     IF vdrop THEN CacheWithdraw(@, 1) ELSE @]
         /\ vnet' = [vnet EXCEPT ![t] = IF rdrop THEN @ - 1 ELSE @]
  /\ UNCHANGED <<svars, fvars>>
  /\ UNCHANGED <<maxzoom, vectorEnabled, failures>>

CancelTile(r) ==
  /\ req[r].kind = "tile"
  /\ req[r].st = "waiting"
  /\ LET u == req[r].tile
     IN  /\ req' = [req EXCEPT ![r].st = "cancelled", ![r].out = "cancelled"]
         /\ net' = [net EXCEPT ![u] = IF CacheDrops(tileCache[u], 1) THEN @ - 1 ELSE @]
         /\ tileCache' = [tileCache EXCEPT ![u] = CacheWithdraw(@, 1)]
  /\ UNCHANGED <<svars, fvars>>
  /\ UNCHANGED <<maxzoom, vectorEnabled, task, contourCache, parsedCache, parseProducer,
                 vectorTileCache, vectorTileRawCache, vnet, failures>>

Next ==
  \/ \E r \in Requests : FetchContourTile(r)
  \/ \E r \in Requests : FetchTile(r)
  \/ \E u \in DemTiles : FetchDone(u)
  \/ \E u \in DemTiles : DecodeDone(u)
  \/ \E p \in Requests : ContourAfterDem(p)
  \/ \E t \in ReqTiles : VectorFetchDone(t)
  \/ \E p \in Requests : ContourAfterVector(p)
  \/ \E r \in Requests : CancelContour(r)
  \/ \E r \in Requests : CancelTile(r)

Spec == Init /\ [][Next]_vars

(***************************************************************************)
(* Properties of the orchestrator and its caches                           *)
(***************************************************************************)
Waiting(r) == req[r].st = "waiting"

\* producer p is running and was not cancelled
Live(p) == task[p].phase \in {"dem", "vector"} /\ ~task[p].aborted

\* the DEM url of the center tile of producer p
CenterUrl(p) == NeighborSlots(task[p].tile, task[p].opt)[CenterSlot]

\* C1: for every cache key at most one producer execution is in flight: at
\* most one network fetch per DEM url and per vector-tile url, and at most one
\* running contour producer per z/x/y/options key, however many calls overlap.
C1_OneProducerPerKey ==
  /\ \A u \in DemTiles : net[u] <= 1
  /\ \A t \in ReqTiles : vnet[t] <= 1
  /\ \A p, q \in Requests :
       (p # q /\ Live(p) /\ Live(q))
         => ContourKey(task[p].tile, task[p].opt) # ContourKey(task[q].tile, task[q].opt)

\* two overlapping calls for the same key share one fetch
C1_Witness ==
  \E r, q \in Requests :
    /\ r # q /\ Waiting(r) /\ Waiting(q)
    /\ req[r].kind = "contour" /\ req[q].kind = "contour"
    /\ req[r].tile = req[q].tile /\ req[r].opt = req[q].opt
    /\ \E u \in DemTiles : net[u] = 1 /\ task[req[r].task].dem[u] = "pending"

\* C2: a producer is cancelled exactly when all its waiters have withdrawn:
\* while a request still waits on an entry its producer is not aborted and
\* each DEM fetch it awaits stays in flight; once every request of the
\* behaviour is cancelled no fetch is left in flight.
C2_CancelledWhenAllWithdrawn ==
  /\ \A r \in Requests :
       (req[r].kind = "contour" /\ Waiting(r)) =>
          LET p == req[r].task
          IN  /\ ~task[p].aborted
              /\ \A u \in DemTiles :
                   /\ task[p].dem[u] # "cancelled"
                   /\ (task[p].phase = "dem" /\ task[p].dem[u] = "pending")
                        => /\ parsedCache[u].st = "pending"
                           /\ parseProducer[u] = "fetch" => net[u] = 1
              /\ task[p].vec # "cancelled"
  /\ (\A r \in Requests : req[r].st = "cancelled")
       => /\ \A u \in DemTiles : net[u] = 0
          /\ \A t \in ReqTiles : vnet[t] = 0

\* the first of two overlapping requests is cancelled, the fetch goes on
C2_Witness ==
  \E r, q \in Requests :
    /\ req[r].kind = "contour" /\ req[r].st = "cancelled"
    /\ req[q].kind = "contour" /\ Waiting(q)
    /\ req[r].tile = req[q].tile /\ req[r].opt = req[q].opt
    /\ req[q].task = r
    /\ \E u \in DemTiles : net[u] = 1 /\ task[r].dem[u] = "pending"

\* the DEM fetch of url u fails in this step
FetchFails(u) == net[u] = 1 /\ net'[u] = 0 /\ failures' = failures + 1

\* the decode of url u fails in this step
DecodeFails(u) ==
  parseProducer[u] = "decode" /\ parseProducer'[u] = "none" /\ failures' = failures + 1

\* the fetchDem views of url u awaited now are rejected in the next state
ViewsRejected(u) ==
  \A p \in Requests : task[p].dem[u] = "pending" => task'[p].dem[u] = "failed"

\* C3: a failed producer is never memoized: no completed entry holds a
\* failure; when a fetch or a decode fails its entry is removed and every
\* current waiter receives the failure; when a contour producer fails its
\* entry is removed and every request waiting on it fails.
C3_FailureNotMemoized ==
  /\ [](/\ \A u \in DemTiles : tileCache[u].st = "done" => tileCache[u].val = "response"
        /\ \A u \in DemTiles : parsedCache[u].st = "done" => parsedCache[u].val = "dem"
        /\ \A k \in ContourKeys :
             contourCache[k].st = "done"
               => contourCache[k].val \in {"empty", "bytesNormal", "bytesSplit"})
  /\ [][/\ \A u \in DemTiles :
             FetchFails(u) =>
               /\ tileCache'[u].st = "absent"
               /\ \A q \in Requests :
                    (req[q].kind = "tile" /\ Waiting(q) /\ req[q].tile = u)
                      => req'[q].st = "failed"
               /\ parseProducer[u] = "fetch"
                    => parsedCache'[u].st = "absent" /\ ViewsRejected(u)
        /\ \A u \in DemTiles :
             DecodeFails(u) => parsedCache'[u].st = "absent" /\ ViewsRejected(u)
        /\ \A p \in Requests :
             (task[p].phase = "dem" /\ task'[p].phase = "failed" /\ ~task[p].aborted)
               => /\ contourCache'[ContourKey(task[p].tile, task[p].opt)].st = "absent"
                  /\ \A q \in Requests :
                       (req[q].kind = "contour" /\ Waiting(q) /\ req[q].task = p)
                         => req'[q].st = "failed"]_vars

\* after a failure a later get for the same url runs the producer again
C3_Witness ==
  \E p \in Requests, u \in DemTiles :
    /\ task[p].dem[u] = "failed"
    /\ \E r \in Requests : req[r].st = "failed" /\ req[r].task = p
    /\ net[u] = 1
    /\ parsedCache[u].st = "pending"

\* C4: no contour producer whose controller was aborted goes on to encode a
\* tile.
C4_NoEncodeAfterCancel ==
  \A p \in Requests : ~(task[p].aborted /\ task[p].encoded)

\* C5: a contour request does not fail when its center DEM tile resolved and
\* only a non-center neighbor failed.
C5_NeighborFailureTolerated ==
  \A r \in Requests :
    ~(/\ req[r].kind = "contour"
      /\ req[r].st = "failed"
      /\ task[req[r].task].dem[CenterUrl(req[r].task)] = "ok"
      /\ \E u \in DemTiles \ {CenterUrl(req[r].task)} : task[req[r].task].dem[u] = "failed")

\* the contour call made in this step carries no thresholds
NoLevelsCall(r) ==
  /\ req[r].st = "new" /\ req'[r].kind = "contour"
  /\ ~req'[r].opt.hasLevels \/ Len(req'[r].opt.levels) = 0

\* C6: a fetchContourTile call whose options carry no thresholds (levels
\* missing or empty) succeeds at once with an empty buffer, starts no DEM or
\* vector fetch and leaves every cache as it was.
C6_NoLevelsEmpty ==
  [][\A r \in Requests :
       NoLevelsCall(r) =>
         /\ req'[r].st = "done" /\ req'[r].out = "empty"
         /\ UNCHANGED <<task, contourCache, parsedCache, parseProducer, tileCache, net,
                        vectorTileCache, vectorTileRawCache, vnet>>]_vars

\* a call with an empty levels array returned the empty buffer while the
\* caches stayed empty
C6_Witness ==
  \E r \in Requests :
    /\ req[r].kind = "contour" /\ req[r].st = "done" /\ req[r].out = "empty"
    /\ req[r].opt.hasLevels /\ Len(req[r].opt.levels) = 0
    /\ \A k \in ContourKeys : contourCache[k].st = "absent"
    /\ \A u \in DemTiles : net[u] = 0 /\ tileCache[u].st = "absent"

(***************************************************************************)
(* ContourSplitter: coordinates                                            *)
(*                                                                         *)
(* A normalized coordinate is a rational number; the model writes it as an *)
(* integer count of 1 / Unit. Polylines are flat arrays of integer tile    *)
(* coordinates [x0, y0, x1, y1, ...].                                      *)
(***************************************************************************)
\* subdivisions of one tile unit (at the largest extent) in normalized space
SubUnits == 32

Extents == {16, 32}

Unit == 64 * SubUnits

\* one tile unit of extent 32 in normalized space
TileUnit == Unit \div 32

\* the zoom levels splitContours is called with
SplitZooms == {11, 14}

\* number of [x, y] pairs of a flat coordinate array
Vertices(coords) == Len(coords) \div 2

\* Math.round of the rational n / d (d > 0): the nearest integer, ties up
MathRound(n, d) == (2 * n + d) \div (2 * d)

\* coordsToLineString: positions [coords[i] / extent, coords[i + 1] / extent]
CoordsToLineString(coords, ext) ==
  [i \in 1..Vertices(coords) |->
     <<coords[2 * i - 1] * (Unit \div ext), coords[2 * i] * (Unit \div ext)>>]

\* lineStringToCoords: Math.round(pos[0] * extent), Math.round(pos[1] * extent)
LineStringToCoords(line, ext) ==
  [k \in 1..(2 * Len(line)) |->
     MathRound(line[(k + 1) \div 2][IF k % 2 = 1 THEN 1 ELSE 2] * ext, Unit)]

(***************************************************************************)
(* Terrain polygons. The polygons of the model are axis-aligned            *)
(* rectangles given by their closed ring of five positions.                *)
(***************************************************************************)
Rect(x0, y0, x1, y1, t) ==
  [ring |-> <<<<x0, y0>>, <<x1, y0>>, <<x1, y1>>, <<x0, y1>>, <<x0, y0>>>>,
   terrainType |-> t]

MinOf(S) == CHOOSE m \in S : \A n \in S : m <= n
MaxOf(S) == CHOOSE m \in S : \A n \in S : m >= n

Abs(n) == IF n < 0 THEN -n ELSE n

\* indexPolygons / getLineBbox: [minX, minY, maxX, maxY] of a list of positions
Bbox(ps) ==
  <<MinOf({ps[i][1] : i \in 1..Len(ps)}), MinOf({ps[i][2] : i \in 1..Len(ps)}),
    MaxOf({ps[i][1] : i \in 1..Len(ps)}), MaxOf({ps[i][2] : i \in 1..Len(ps)})>>

RECURSIVE Shoelace(_, _)
\* the signed sum of calculatePolygonArea over ring positions i .. length - 1
Shoelace(ring, i) ==
  IF i >= Len(ring) THEN 0
  ELSE ring[i][1] * ring[i + 1][2] - ring[i + 1][1] * ring[i][2] + Shoelace(ring, i + 1)

\* calculatePolygonArea, in units of 1 / (2 * Unit^2): twice the area
TwiceArea(ring) == Abs(Shoelace(ring, 1))

\* minAreaThreshold, as the pair numerator / denominator
MinAreaThreshold(z) ==
  IF z <= 11 THEN <<5, 100000>>
  ELSE IF z = 12 THEN <<2, 100000>>
  ELSE IF z = 13 THEN <<1, 100000>>
  ELSE <<5, 1000000>>

\* area < minAreaThreshold: TwiceArea / (2 Unit^2) < num / den
TinyPolygon(polygon, z) ==
  LET th == MinAreaThreshold(z)
  IN  TwiceArea(polygon.ring) <= (2 * th[1] * Unit * Unit - 1) \div th[2]

\* simplifyPolygon / convexHullPolygon: a rectangle whose sides exceed the
\* tolerance is its own simplification and its own convex hull
SimplifyPolygon(polygon) == polygon

\* preprocessPolygons: tiny polygons are skipped, the others simplified
PreprocessPolygons(ps, z) ==
  LET kept == SelectSeq(ps, LAMBDA q : ~TinyPolygon(q, z))
  IN  [i \in 1..Len(kept) |-> SimplifyPolygon(kept[i])]

\* variant: turf.booleanPointInPolygon with ignoreBoundary
PointInPolygonIgnoringBoundary(pos, polygon) ==
  LET b == Bbox(polygon.ring)
  IN  b[1] < pos[1] /\ pos[1] < b[3] /\ b[2] < pos[2] /\ pos[2] < b[4]

\* turf.booleanPointInPolygon (the boundary counts as inside)
BooleanPointInPolygon(pos, polygon) ==
  LET b == Bbox(polygon.ring)
  IN  b[1] <= pos[1] /\ pos[1] <= b[3] /\ b[2] <= pos[2] /\ pos[2] <= b[4]

\* pos lies strictly inside polygon
StrictlyInside(pos, polygon) ==
  LET b == Bbox(polygon.ring)
  IN  b[1] < pos[1] /\ pos[1] < b[3] /\ b[2] < pos[2] /\ pos[2] < b[4]

(***************************************************************************)
(* The grid index                                                          *)
(***************************************************************************)
\* Math.floor(v / cellSize) with cellSize = 1.0 / gridSize
CellOf(v, gridSize) == (v * gridSize) \div Unit

\* variant: polygon is put into the cell of the first corner of its bbox only
InFirstCell(polygon, cell, gridSize) ==
  LET b == Bbox(polygon.ring)
  IN  cell = <<CellOf(b[1], gridSize), CellOf(b[2], gridSize)>>

\* buildGridIndex: polygon is put into every cell its bbox overlaps
InCell(polygon, cell, gridSize) ==
  LET b == Bbox(polygon.ring)
  IN  /\ CellOf(b[1], gridSize) <= cell[1] /\ cell[1] <= CellOf(b[3], gridSize)
      /\ CellOf(b[2], gridSize) <= cell[2] /\ cell[2] <= CellOf(b[4], gridSize)

\* the elements of seq b that are not in seq a, appended to a
AddAll(a, b) ==
  a \o SelectSeq(b, LAMBDA q : \A i \in 1..Len(a) : a[i] # q)

RECURSIVE CandidatesFrom(_, _, _, _, _, _)
\* getCandidatePolygonsFromGrid: the polygons of the cells the line's
\* vertices fall into, in the order the cells are first visited
CandidatesFrom(line, i, indexed, gridSize, visited, cand) ==
  IF i > Len(line) THEN cand
  ELSE LET cell == <<CellOf(line[i][1], gridSize), CellOf(line[i][2], gridSize)>>
       IN  IF cell \in visited
           THEN CandidatesFrom(line, i + 1, indexed, gridSize, visited, cand)
           ELSE CandidatesFrom(line, i + 1, indexed, gridSize, visited \cup {cell},
                               AddAll(cand, SelectSeq(indexed,
                                                      LAMBDA q : InCell(q, cell, gridSize))))

GetCandidatePolygonsFromGrid(line, indexed, gridSize) ==
  CandidatesFrom(line, 1, indexed, gridSize, {}, <<>>)

(***************************************************************************)
(* The first ContourSplitter: every vertex is classified, the line is cut  *)
(* where the type changes for a run of at least minRunLength vertices      *)
(***************************************************************************)
MinRunLength == 10

\* a ClassifiedContourSegment built from a list of positions
Segment(ps, t, ext) == [geometry |-> LineStringToCoords(ps, ext), terrainType |-> t]

Terrain(polygon) == polygon.terrainType \in {"glacier", "rock"}

RECURSIVE PointTypeFrom(_, _, _, _)
\* the terrain type at pos: the loop over the polygons stops at a glacier
PointTypeFrom(pos, cands, k, terrainType) ==
  IF k > Len(cands) THEN terrainType
  ELSE IF Terrain(cands[k]) /\ BooleanPointInPolygon(pos, cands[k])
  THEN (IF cands[k].terrainType = "glacier" THEN "glacier"
        ELSE PointTypeFrom(pos, cands, k + 1, cands[k].terrainType))
  ELSE PointTypeFrom(pos, cands, k + 1, terrainType)

PointTypes(line, cands) == [i \in 1..Len(line) |-> PointTypeFrom(line[i], cands, 1, "normal")]

\* the current segment is committed when a run is promoted
Commits(currentSegment) == Len(currentSegment) >= 2

\* one iteration of the loop over coords[1 ..], at vertex c of type t
RunStep(w, c, t, ext) ==
  IF t = w.currentType
  THEN [w EXCEPT !.currentSegment = (@ \o w.potentialSegment) \o <<c>>,
                 !.potentialSegment = <<>>,
                 !.potentialType = IF Len(w.potentialSegment) > 0 THEN "null" ELSE @]
  ELSE IF w.potentialType = "null" \/ t = w.potentialType
  THEN LET potential == Append(w.potentialSegment, c)
       IN  IF Len(potential) >= MinRunLength
           THEN [segments |->
                   IF Commits(w.currentSegment)
                   THEN Append(w.segments,
                               Segment(Append(w.currentSegment, potential[1]),
                                       w.currentType, ext))
                   ELSE w.segments,
                 currentSegment |-> potential,
                 currentType |-> t,
                 potentialSegment |-> <<>>,
                 potentialType |-> "null"]
           ELSE [w EXCEPT !.potentialSegment = potential, !.potentialType = t]
  ELSE [w EXCEPT !.currentSegment = @ \o w.potentialSegment,
                 !.potentialSegment = <<c>>,
                 !.potentialType = t]

\* always true of the state of a walk; a walk tests it at every iteration so
\* that the state is evaluated there rather than all at once at the end
Evaluated(w) == Len(w.segments) >= 0

RECURSIVE RunWalk(_, _, _, _, _)
RunWalk(w, line, types, i, ext) ==
  IF i > Len(line) THEN w
  ELSE IF Evaluated(w)
  THEN RunWalk(RunStep(w, line[i], types[i], ext), line, types, i + 1, ext)
  ELSE w

\* splitLineByPolygons of the first class
SplitLineByPolygons1(line, cands, ext) ==
  IF Len(line) < 2 THEN <<Segment(line, "normal", ext)>>
  ELSE
    LET types == PointTypes(line, cands)
        w == RunWalk([segments |-> <<>>, currentSegment |-> <<line[1]>>,
                      currentType |-> types[1], potentialSegment |-> <<>>,
                      potentialType |-> "null"], line, types, 2, ext)
        last == w.currentSegment \o w.potentialSegment
        segments == IF Len(last) >= 2
                    THEN Append(w.segments, Segment(last, w.currentType, ext))
                    ELSE w.segments
    IN  IF Len(segments) > 0 THEN segments ELSE <<Segment(line, "normal", ext)>>

\* buildGridIndex of the first class: 8x8 up to zoom 12, 4x4 at zoom 13
GridSize1(z) == IF z <= 12 THEN 8 ELSE 4

\* the candidate polygons of a line in the first class: no grid from zoom 14
Candidates1(line, indexed, z) ==
  IF z < 14 THEN GetCandidatePolygonsFromGrid(line, indexed, GridSize1(z)) ELSE indexed

\* the segments the first class emits for one polyline
SplitLine1(coords, processed, ext, z) ==
  LET line == CoordsToLineString(coords, ext)
      cands == Candidates1(line, processed, z)
  IN  IF Len(cands) = 0
      THEN <<[geometry |-> coords, terrainType |-> "normal"]>>
      ELSE SplitLineByPolygons1(line, cands, ext)

(***************************************************************************)
(* The second ContourSplitter: the line starts as one normal segment and   *)
(* the candidate polygons are applied one after the other                  *)
(***************************************************************************)
\* bboxIntersects
BboxIntersects(b1, b2) ==
  ~(b1[3] < b2[1] \/ b1[1] > b2[3] \/ b1[4] < b2[2] \/ b1[2] > b2[4])

\* twice the signed area of the triangle a, b, c
Cross(a, b, c) == (b[1] - a[1]) * (c[2] - a[2]) - (b[2] - a[2]) * (c[1] - a[1])

\* the edge a-b meets the rectangle: their boxes overlap and the corners of
\* the rectangle are not all strictly on one side of the edge
EdgeMeets(a, b, polygon) ==
  /\ BboxIntersects(Bbox(<<a, b>>), Bbox(polygon.ring))
  /\ ~(\A i \in 1..4 : Cross(a, b, polygon.ring[i]) > 0)
  /\ ~(\A i \in 1..4 : Cross(a, b, polygon.ring[i]) < 0)

\* turf.booleanIntersects(line, polygon)
BooleanIntersects(line, polygon) ==
  \E i \in 1..(Len(line) - 1) : EdgeMeets(line[i], line[i + 1], polygon)

Max(a, b) == IF a >= b THEN a ELSE b

\* the indices (from 1) splitAtBoundary samples: every sampleRate-th vertex
\* and the last one
Samples(n) ==
  LET sampleRate == Max(1, n \div 20)
  IN  {i \in 1..n : (i - 1) % sampleRate = 0} \cup {n}

\* variant: a transition does not update currentInside
KeepsInside(currentInside, isInside) == currentInside

\* the state of the segment opened at a transition
OpensInside(currentInside, isInside) == isInside

\* the type of a segment of splitAtBoundary
TypeOf(currentInside, polygonTerrainType) ==
  IF currentInside THEN polygonTerrainType ELSE "normal"

\* variant: the segment opened at a transition starts after the vertex
NewSegmentEmpty(c) == <<>>

\* the segment opened at a transition starts with the transition vertex
NewSegment(c) == <<c>>

\* one iteration of the walk of splitAtBoundary at vertex c
BoundaryStep(w, c, polygon, ext) ==
  LET isInside == BooleanPointInPolygon(c, polygon)
  IN  IF isInside = w.currentInside
      THEN [w EXCEPT !.currentSegment = Append(@, c)]
      ELSE [segments |->
              IF Len(w.currentSegment) + 1 >= 2
              THEN Append(w.segments,
                          Segment(Append(w.currentSegment, c),
                                  TypeOf(w.currentInside, polygon.terrainType), ext))
              ELSE w.segments,
            currentSegment |-> NewSegment(c),
            currentInside |-> OpensInside(w.currentInside, isInside)]

RECURSIVE BoundaryWalk(_, _, _, _, _)
BoundaryWalk(w, line, i, polygon, ext) ==
  IF i > Len(line) THEN w
  ELSE IF Evaluated(w)
  THEN BoundaryWalk(BoundaryStep(w, line[i], polygon, ext), line, i + 1, polygon, ext)
  ELSE w

\* splitAtBoundary(line, polygon, polygonTerrainType, extent)
SplitAtBoundary(line, polygon, ext) ==
  IF Len(line) < 2 THEN <<Segment(line, "normal", ext)>>
  ELSE
    LET inside(i) == BooleanPointInPolygon(line[i], polygon)
        allInside == \A i \in Samples(Len(line)) : inside(i)
        allOutside == \A i \in Samples(Len(line)) : ~inside(i)
        w == BoundaryWalk([segments |-> <<>>, currentSegment |-> <<line[1]>>,
                           currentInside |-> inside(1)], line, 2, polygon, ext)
        segments == IF Len(w.currentSegment) >= 2
                    THEN Append(w.segments,
                                Segment(w.currentSegment,
                                        TypeOf(w.currentInside, polygon.terrainType), ext))
                    ELSE w.segments
    IN  IF allInside THEN <<Segment(line, polygon.terrainType, ext)>>
        ELSE IF allOutside THEN <<Segment(line, "normal", ext)>>
        ELSE IF Len(segments) > 0 THEN segments
        ELSE <<Segment(line, "normal", ext)>>

\* splitLineByPolygon(line, polygon, turfPolygon, extent)
SplitLineByPolygon(line, polygon, ext) ==
  IF ~BooleanIntersects(line, polygon)
  THEN <<Segment(line,
                 IF BooleanPointInPolygon(line[1], polygon) /\ Terrain(polygon)
                 THEN polygon.terrainType ELSE "normal", ext)>>
  ELSE IF Terrain(polygon) THEN SplitAtBoundary(line, polygon, ext)
  ELSE <<Segment(line, "normal", ext)>>

RECURSIVE SplitSegmentsFrom(_, _, _, _)
\* splitSegmentsByPolygon: only the normal segments whose bbox meets the
\* bbox of the polygon are split
SplitSegmentsFrom(segments, k, polygon, ext) ==
  IF k > Len(segments) THEN <<>>
  ELSE LET segment == segments[k]
           line == CoordsToLineString(segment.geometry, ext)
           out == IF segment.terrainType # "normal" THEN <<segment>>
                  ELSE IF ~BboxIntersects(Bbox(line), Bbox(polygon.ring)) THEN <<segment>>
                  ELSE SplitLineByPolygon(line, polygon, ext)
       IN  out \o SplitSegmentsFrom(segments, k + 1, polygon, ext)

SplitSegmentsByPolygon(segments, polygon, ext) == SplitSegmentsFrom(segments, 1, polygon, ext)

RECURSIVE ApplyPolygons(_, _, _, _)
ApplyPolygons(segments, cands, k, ext) ==
  IF k > Len(cands) THEN segments
  ELSE ApplyPolygons(SplitSegmentsByPolygon(segments, cands[k], ext), cands, k + 1, ext)

\* splitLineByPolygons of the second class
SplitLineByPolygons2(line, cands, ext) ==
  ApplyPolygons(<<Segment(line, "normal", ext)>>, cands, 1, ext)

\* buildGridIndex of the second class: always 8x8
GridSize2 == 8

\* the segments the second class emits for one polyline
SplitLine2(coords, processed, ext) ==
  LET line == CoordsToLineString(coords, ext)
  IN  SplitLineByPolygons2(line, GetCandidatePolygonsFromGrid(line, processed, GridSize2), ext)

(***************************************************************************)
(* preprocessPolygons of the second class: the convex hull replaces the    *)
(* polygon up to zoom 13                                                   *)
(***************************************************************************)
\* p lies on the segment from a to b
OnSegment(p, a, b) ==
  /\ Cross(a, b, p) = 0
  /\ (p[1] - a[1]) * (p[1] - b[1]) <= 0
  /\ (p[2] - a[2]) * (p[2] - b[2]) <= 0

\* p lies in the triangle a, b, c (its sides included)
InTriangle(p, a, b, c) ==
  LET d1 == Cross(a, b, p)
      d2 == Cross(b, c, p)
      d3 == Cross(c, a, p)
  IN  /\ Cross(a, b, c) # 0
      /\ \/ d1 >= 0 /\ d2 >= 0 /\ d3 >= 0
         \/ d1 <= 0 /\ d2 <= 0 /\ d3 <= 0

\* the corners of the convex hull of the point set P: the points that lie
\* neither between two others nor in a triangle of three others
HullCorners(P) ==
  {p \in P :
     LET others == P \ {p}
     IN  /\ \A a, b \in others : a # b => ~OnSegment(p, a, b)
         /\ \A a, b, c \in others : ~InTriangle(p, a, b, c)}

RECURSIVE HullRingFrom(_, _, _)
\* the corners H in counterclockwise order from p back to the corner first
HullRingFrom(H, first, p) ==
  LET q == CHOOSE c \in H \ {p} : \A r \in H : Cross(p, c, r) >= 0
  IN  IF q = first THEN <<p, first>> ELSE <<p>> \o HullRingFrom(H, first, q)

\* turf.convex: the closed ring of the convex hull, null for fewer than
\* three corners
ConvexHull(ring) ==
  LET H == HullCorners({ring[i] : i \in 1..Len(ring)})
      first == CHOOSE p \in H : \A r \in H : p[1] < r[1] \/ (p[1] = r[1] /\ p[2] <= r[2])
  IN  IF Cardinality(H) < 3 THEN Undef ELSE HullRingFrom(H, first, first)

\* convexHullPolygon(polygon) returns null: !hull or a ring of fewer than 4
HullIsNull(polygon) == Len(ConvexHull(polygon.ring)) < 4

\* convexHullPolygon(polygon) when it is not null
ConvexHullPolygon(polygon) == [polygon EXCEPT !.ring = ConvexHull(polygon.ring)]

\* const useConvexHull = zoom <= 13
UseConvexHull(z) == z <= 13

\* preprocessPolygons of the second class
PreprocessPolygons2(ps, z) ==
  LET kept == SelectSeq(ps, LAMBDA q : /\ ~TinyPolygon(q, z)
                                       /\ UseConvexHull(z) => ~HullIsNull(q))
  IN  [i \in 1..Len(kept) |-> IF UseConvexHull(z) THEN ConvexHullPolygon(kept[i])
                                ELSE SimplifyPolygon(kept[i])]

\* preprocessPolygons of class cls
PreprocessPolygonsOf(cls, ps, z) ==
  IF cls = 1 THEN PreprocessPolygons(ps, z) ELSE PreprocessPolygons2(ps, z)

(***************************************************************************)
(* splitContours(isolines, polygons, extent, zoom)                         *)
(***************************************************************************)
\* variant: the polylines of one elevation are merged into a single segment
MarkMergedAsNormal(iso) ==
  [k \in 1..Len(iso) |->
     [ele |-> iso[k].ele,
      segments |-> <<[geometry |-> iso[k].lines, terrainType |-> "normal"]>>]]

\* markAllAsNormal: every polyline becomes one normal segment
MarkAllAsNormal(iso) ==
  [k \in 1..Len(iso) |->
     [ele |-> iso[k].ele,
      segments |-> [j \in 1..Len(iso[k].lines) |->
                      [geometry |-> iso[k].lines[j], terrainType |-> "normal"]]]]

\* the segments class cls emits for one polyline
SplitLine(cls, coords, processed, ext, z) ==
  IF cls = 1 THEN SplitLine1(coords, processed, ext, z)
  ELSE SplitLine2(coords, processed, ext)

RECURSIVE SplitLines(_, _, _, _, _, _)
\* result[elevation].push(...segments) over the polylines j .. of one elevation
SplitLines(cls, lines, j, processed, ext, z) ==
  IF j > Len(lines) THEN <<>>
  ELSE SplitLine(cls, lines[j], processed, ext, z)
         \o SplitLines(cls, lines, j + 1, processed, ext, z)

\* polygons.length === 0
NoPolygons(ps) == Len(ps) = 0

SplitContours(cls, iso, ps, ext, z) ==
  IF NoPolygons(ps) THEN MarkAllAsNormal(iso)
  ELSE LET processed == PreprocessPolygonsOf(cls, ps, z)
       IN  IF cls = 2 /\ Len(processed) = 0 THEN MarkAllAsNormal(iso)
           ELSE [k \in 1..Len(iso) |->
                   [ele |-> iso[k].ele,
                    segments |-> SplitLines(cls, iso[k].lines, 1, processed, ext, z)]]

(***************************************************************************)
(* The inputs of splitContours                                             *)
(***************************************************************************)
MaxRuns == 3
MaxVertices == 12
MaxPolygons == 2

\* the y coordinates of the polyline vertices
Rows == {-1, 4, 8}

RunLengths == {1, MinRunLength - 1, MinRunLength}

RECURSIVE TotalLength(_, _)
TotalLength(runs, k) == IF k > Len(runs) THEN 0 ELSE runs[k][2] + TotalLength(runs, k + 1)

\* a polyline as runs <<row, length>> of consecutive vertices on one row
RunSeqs ==
  {runs \in UNION {[1..n -> Rows \X RunLengths] : n \in 1..MaxRuns} :
     TotalLength(runs, 1) >= 2 /\ TotalLength(runs, 1) <= MaxVertices}

RECURSIVE RowAt(_, _, _)
\* the row of vertex i (from 1) of the polyline made of runs k ..
RowAt(runs, k, i) == IF i <= runs[k][2] THEN runs[k][1] ELSE RowAt(runs, k + 1, i - runs[k][2])

\* the flat coordinate array of the polyline: vertex i is at x = i - 1
LineOf(runs) ==
  [c \in 1..(2 * TotalLength(runs, 1)) |->
     IF c % 2 = 1 THEN (c - 1) \div 2 ELSE RowAt(runs, 1, c \div 2)]

\* the terrain polygons, in normalized coordinates: a glacier band, a rock
\* rectangle that contains it, and a tiny glacier square around the tile
\* position (0, -1) of extent 32
TerrainPolygons ==
  { Rect(-TileUnit, 4 * TileUnit - TileUnit \div 2, 13 * TileUnit,
         4 * TileUnit + TileUnit \div 2, "glacier"),
    Rect(-TileUnit, 4 * TileUnit - TileUnit \div 2, 13 * TileUnit,
         8 * TileUnit + TileUnit \div 2, "rock"),
    Rect(-2, -TileUnit - 2, 2, -TileUnit + 2, "glacier") }

PolygonLists ==
  {ps \in UNION {[1..n -> TerrainPolygons] : n \in 0..MaxPolygons} :
     \A i, j \in 1..Len(ps) : i # j => ps[i] # ps[j]}

\* the isolines: one elevation with the polyline under test, a second one
\* with two fixed polylines
IsolinesOf(runs) ==
  << [ele |-> 100, lines |-> <<LineOf(runs)>>],
     [ele |-> 200, lines |-> << <<0, -1, 1, 4>>, <<0, 8, 1, 8, 2, 8>> >>] >>

\* the extents of the central-square scenario
ScenarioExtents == {32, 64}

\* the glacier polygon covering normalized [0.25, 0.75] x [0.25, 0.75]
CentralSquare ==
  Rect(Unit \div 4, Unit \div 4, 3 * (Unit \div 4), 3 * (Unit \div 4), "glacier")

\* the horizontal polyline from x = 0 to x = ext at y = ext / 2 with a vertex
\* every step units
HorizontalLine(ext, step) ==
  [c \in 1..(2 * (ext \div step + 1)) |->
     IF c % 2 = 1 THEN step * ((c - 1) \div 2) ELSE ext \div 2]

\* the spacings of the vertices of the horizontal polyline: every unit, or
\* the two end points alone
Spacings(ext) == {1, ext}

SplitInit ==
  /\ maxzoom = 0
  /\ vectorEnabled = TRUE
  /\ CachesEmpty
  /\ FunctionIdle
  /\ ProducerIdle
  /\ splitter \in {1, 2}
  /\ zoom \in SplitZooms
  /\ \/ /\ isolines \in {IsolinesOf(runs) : runs \in RunSeqs}
        /\ polygons \in PolygonLists
        /\ extent \in Extents
     \/ /\ polygons = <<CentralSquare>>
        /\ extent \in ScenarioExtents
        /\ isolines \in {<<[ele |-> 100, lines |-> <<HorizontalLine(extent, step)>>]>> :
                             step \in Spacings(extent)}
  /\ result = <<>>
  /\ levels = <<>>
  /\ features = <<>>

\* the call splitContours(isolines, polygons, extent, zoom)
SplitContoursCall ==
  /\ splitter # 0
  /\ result = <<>>
  /\ result' = SplitContours(splitter, isolines, polygons, extent, zoom)
  /\ UNCHANGED <<mvars, fvars, splitter, isolines, polygons, extent, zoom, levels, features, pvars>>

SplitNext == SplitContoursCall

SplitSpec == SplitInit /\ [][SplitNext]_vars

(***************************************************************************)
(* Properties of splitContours                                             *)
(***************************************************************************)
\* splitContours has returned
Split == result # <<>>

\* the polyline under test and the segments emitted for its elevation
TestLine == isolines[1].lines[1]
TestSegments == result[1].segments

\* vertex j (from 1) of a flat coordinate array
VertexAt(coords, j) == <<coords[2 * j - 1], coords[2 * j]>>

RECURSIVE JoinFrom(_, _)
\* the geometries of segments k .. without the first vertex of each
JoinFrom(segs, k) ==
  IF k > Len(segs) THEN <<>>
  ELSE SubSeq(segs[k].geometry, 3, Len(segs[k].geometry)) \o JoinFrom(segs, k + 1)

\* the segments reproduce coords: each segment after the first starts with
\* the last vertex of its predecessor, and without these duplicates the
\* concatenation is coords
Covers(coords, segs) ==
  /\ Len(segs) >= 1
  /\ \A k \in 2..Len(segs) :
       VertexAt(segs[k].geometry, 1)
         = VertexAt(segs[k - 1].geometry, Vertices(segs[k - 1].geometry))
  /\ segs[1].geometry \o JoinFrom(segs, 2) = coords

TypesAt(pos, ps) ==
  {ps[i].terrainType : i \in {i \in 1..Len(ps) : BooleanPointInPolygon(pos, ps[i])}}

\* some polygon of ps contains pos strictly
InsideSome(pos, ps) == \E i \in 1..Len(ps) : StrictlyInside(pos, ps[i])

\* segment sg has a vertex at tile position v
HasVertex(sg, v) == \E j \in 1..Vertices(sg.geometry) : VertexAt(sg.geometry, j) = v

\* C8 as stated: a vertex strictly inside an input polygon belongs to a
\* segment carrying the type of an input polygon that contains the vertex.
C8_SoundEveryVertex ==
  Split =>
    \A j \in 1..Vertices(TestLine) :
      LET pos == CoordsToLineString(TestLine, extent)[j]
      IN  InsideSome(pos, polygons) =>
            \E k \in 1..Len(TestSegments) :
              /\ HasVertex(TestSegments[k], VertexAt(TestLine, j))
              /\ TestSegments[k].terrainType \in TypesAt(pos, polygons)

\* every segment of the result
AllSegments == UNION {{result[k].segments[j] : j \in 1..Len(result[k].segments)} :
                        k \in 1..Len(result)}

\* C8 amended: for the first vertex of each emitted segment and the polygons
\* that survive preprocessing: if that vertex lies strictly inside such a
\* polygon, the segment carries the type of a surviving polygon containing
\* the vertex, never normal (polylines of fewer than 40 vertices).
C8_SoundFirstVertex ==
  Split =>
    \A sg \in AllSegments :
      LET pos == CoordsToLineString(sg.geometry, extent)[1]
          processed == PreprocessPolygons(polygons, zoom)
      IN  InsideSome(pos, processed) => sg.terrainType \in TypesAt(pos, processed)

\* a polyline was cut: a later segment starts strictly inside a polygon that
\* survived preprocessing, after a normal segment
C8_Witness ==
  /\ Split
  /\ Len(TestSegments) >= 2
  /\ TestSegments[1].terrainType = "normal"
  /\ InsideSome(CoordsToLineString(TestSegments[2].geometry, extent)[1],
                PreprocessPolygons(polygons, zoom))
  /\ TestSegments[2].terrainType = "glacier"

\* C9: with an empty polygon list splitContours returns, for every elevation
\* in the same order, each input polyline unchanged as exactly one normal
\* segment, whatever the extent and the zoom.
C9_EmptyPolygonsIdentity ==
  (Split /\ Len(polygons) = 0) =>
     /\ Len(result) = Len(isolines)
     /\ \A k \in 1..Len(isolines) :
          /\ result[k].ele = isolines[k].ele
          /\ Len(result[k].segments) = Len(isolines[k].lines)
          /\ \A j \in 1..Len(isolines[k].lines) :
               result[k].segments[j]
                 = [geometry |-> isolines[k].lines[j], terrainType |-> "normal"]

\* splitContours returned for an empty polygon list and two elevations, one
\* of them with two polylines
C9_Witness ==
  /\ Split
  /\ Len(polygons) = 0
  /\ Len(result) = 2
  /\ Len(result[2].segments) = 2
  /\ Vertices(TestLine) = MaxVertices

(***************************************************************************)
(* createFeaturesFromIsolines(isolines, levels, elevationKey, levelKey)    *)
(***************************************************************************)
\* the JavaScript remainder a % b of two integers: the sign of the dividend,
\* NaN for a zero divisor
JsRem(a, b) ==
  IF b = 0 THEN "NaN"
  ELSE IF a >= 0 THEN a % Abs(b)
  ELSE -((-a) % Abs(b))

\* variant: the index is counted from one
LevelTermFromOne(ele, l, i) == IF JsRem(ele, l) = 0 THEN i + 1 ELSE 0

\* (l, i) => (ele % l === 0 ? i : 0), i counted from zero
LevelTerm(ele, l, i) == IF JsRem(ele, l) = 0 THEN i ELSE 0

\* Math.max(...levels.map(...))
LevelOf(ele, lv) == MaxOf({LevelTerm(ele, lv[i], i - 1) : i \in 1..Len(lv)})

\* the segments of one elevation are classified: the first has a terrainType
Classified(segments) == "terrainType" \in DOMAIN segments[1]

\* the features pushed for one elevation
FeaturesOf(entry, lv) ==
  LET level == LevelOf(entry.ele, lv)
      divisor == IF level + 1 \in DOMAIN lv THEN lv[level + 1] ELSE Undef
  IN  IF Len(entry.segments) = 0 THEN <<>>
      ELSE [j \in 1..Len(entry.segments) |->
              [type |-> "LINESTRING",
               geometry |-> <<entry.segments[j].geometry>>,
               ele |-> entry.ele,
               level |-> level,
               divisor |-> divisor,
               terrain_type |-> IF Classified(entry.segments)
                                THEN entry.segments[j].terrainType ELSE "normal"]]

RECURSIVE FeaturesFrom(_, _, _)
FeaturesFrom(iso, k, lv) ==
  IF k > Len(iso) THEN <<>> ELSE FeaturesOf(iso[k], lv) \o FeaturesFrom(iso, k + 1, lv)

CreateFeaturesFromIsolines(iso, lv) == FeaturesFrom(iso, 1, lv)

MaxLevels == 3
MaxElevation == 12

Thresholds == {2, 3, 4, 6}

LevelLists == UNION {[1..n -> Thresholds] : n \in 1..MaxLevels}

Elevations == (-4)..MaxElevation

\* the segment lists of one elevation: none, unsplit isolines, classified
SegmentLists ==
  { <<>>,
    << [geometry |-> <<0, 0, 4, 4>>] >>,
    << [geometry |-> <<0, 0, 4, 4>>, terrainType |-> "glacier"] >>,
    << [geometry |-> <<0, 0, 1, 1>>, terrainType |-> "normal"],
       [geometry |-> <<1, 1, 4, 4>>, terrainType |-> "rock"] >> }

LevelInit ==
  /\ maxzoom = 0
  /\ vectorEnabled = TRUE
  /\ CachesEmpty
  /\ FunctionIdle
  /\ ProducerIdle
  /\ splitter = 0
  /\ isolines = <<>>
  /\ polygons = <<>>
  /\ extent = 0
  /\ zoom = 0
  /\ result \in {<<[ele |-> e, segments |-> sl]>> : e \in Elevations, sl \in SegmentLists}
  /\ levels \in LevelLists
  /\ features = <<>>

\* the call createFeaturesFromIsolines(finalIsolines, levels, ...)
CreateFeaturesCall ==
  /\ Len(levels) > 0
  /\ features = <<>>
  /\ features' = CreateFeaturesFromIsolines(result, levels)
  /\ UNCHANGED <<mvars, fvars, splitter, isolines, polygons, extent, zoom, result, levels, pvars>>

LevelNext == CreateFeaturesCall

LevelSpec == LevelInit /\ [][LevelNext]_vars

\* d divides e
Divides(d, e) == \E k \in (-Abs(e))..Abs(e) : k * d = e

\* C10: the level of every emitted feature is the largest index i (from 0)
\* such that levels[i] divides the elevation, and 0 when no index beyond 0
\* divides it.
C10_LevelIsLargestDividing ==
  \A j \in 1..Len(features) :
    features[j].level
      = MaxOf({i \in 1..(Len(levels) - 1) : Divides(levels[i + 1], features[j].ele)}
              \cup {0})

\* a feature of negative elevation among three thresholds: the last
\* threshold divides the elevation, the one before does not
C10_Witness ==
  /\ Len(levels) = MaxLevels
  /\ Len(features) > 0
  /\ features[1].level = 2
  /\ ~Divides(levels[2], features[1].ele)
  /\ features[1].ele < 0

\* C11: sliver suppression: a segment that starts at a transition holds a run
\* of at least minRunLength vertices; a shorter run of a new terrain type is
\* never a segment of its own.
C11_NoShortRunSegment ==
  Split => \A k \in 2..Len(TestSegments) :
             Vertices(TestSegments[k].geometry) >= MinRunLength

\* the same for the first class alone
C11_FirstClassOnly == (Split /\ splitter = 1) => C11_NoShortRunSegment

\* the central-square scenario: one glacier polygon over the middle of the
\* tile and the horizontal polyline through it
Scenario == polygons = <<CentralSquare>> /\ TestLine[2] = extent \div 2

\* the x coordinate of the last vertex of a segment
LastX(sg) == sg.geometry[Len(sg.geometry) - 1]

\* three segments normal, glacier, normal that meet at x = a and x = b
ThreeSegments(a, b) ==
  /\ Len(TestSegments) = 3
  /\ TestSegments[1].terrainType = "normal"
  /\ TestSegments[2].terrainType = "glacier"
  /\ TestSegments[3].terrainType = "normal"
  /\ LastX(TestSegments[1]) = a /\ TestSegments[2].geometry[1] = a
  /\ LastX(TestSegments[2]) = b /\ TestSegments[3].geometry[1] = b

\* C12 as stated: every horizontal polyline from x = 0 to x = extent through
\* the central square yields normal, glacier, normal with transitions about
\* 0.25 * extent and 0.75 * extent.
C12_ThreeSegmentsAnyLine ==
  (Split /\ Scenario) =>
     \E a \in {extent \div 4, extent \div 4 + 1} :
       \E b \in {3 * (extent \div 4), 3 * (extent \div 4) + 1} : ThreeSegments(a, b)

\* the polyline has a vertex at every integer x and each of its three
\* portions holds at least minRunLength vertices
DenseLine ==
  /\ Vertices(TestLine) = extent + 1
  /\ extent \div 4 >= MinRunLength

\* C12 amended: a horizontal polyline with a vertex at every integer x, each
\* portion of at least 10 vertices, yields exactly normal, glacier, normal;
\* the segments meet at the first vertex on the polygon, x = 0.25 * extent,
\* and at the first vertex past it, x = 0.75 * extent + 1.
C12_ThreeSegmentsDenseLine ==
  (Split /\ Scenario /\ DenseLine) =>
     ThreeSegments(extent \div 4, 3 * (extent \div 4) + 1)

\* the dense polyline of the scenario was split by the first class
C12_Witness ==
  /\ Split /\ Scenario /\ DenseLine
  /\ splitter = 1
  /\ Len(TestSegments) = 3

(***************************************************************************)
(* simplifyIsolines(isolines, tolerance, extent)                           *)
(*                                                                         *)
(* A normalized position [x / extent, y / extent] is written as the pair   *)
(* of its counts of 1 / extent, and the normalized tolerance               *)
(* tolerance / extent as its count of 1 / extent.  turf.simplify is called *)
(* with highQuality: false: a radial-distance pass, then Douglas-Peucker.  *)
(***************************************************************************)
\* positions.push([coords[i] / extent, coords[i + 1] / extent])
Positions(coords) == [i \in 1..Vertices(coords) |-> <<coords[2 * i - 1], coords[2 * i]>>]

\* simplifiedCoords.push(Math.round(pos[0] * extent), Math.round(pos[1] * extent))
RoundedCoords(ps, ext) ==
  [k \in 1..(2 * Len(ps)) |->
     MathRound(ps[(k + 1) \div 2][IF k % 2 = 1 THEN 1 ELSE 2] * ext, ext)]

\* the squared distance of two positions
SqDist(p, q) == (p[1] - q[1]) * (p[1] - q[1]) + (p[2] - q[2]) * (p[2] - q[2])

RECURSIVE RadialFrom(_, _, _, _, _)
\* the radial-distance pass from index i on: a point is kept when it is
\* farther than the tolerance from the last kept point; the last point is
\* always kept
RadialFrom(points, i, prev, sqTolerance, kept) ==
  IF i > Len(points)
  THEN IF prev # Len(points) THEN Append(kept, Len(points)) ELSE kept
  ELSE IF SqDist(points[i], points[prev]) > sqTolerance
       THEN RadialFrom(points, i + 1, i, sqTolerance, Append(kept, i))
       ELSE RadialFrom(points, i + 1, prev, sqTolerance, kept)

SimplifyRadialDist(points, sqTolerance) ==
  LET kept == RadialFrom(points, 2, 1, sqTolerance, <<1>>)
  IN  [k \in 1..Len(kept) |-> points[kept[k]]]

\* the squared distance of p to the segment p1-p2, as a fraction <<n, d>>
SqSegDist(p, p1, p2) ==
  LET dx == p2[1] - p1[1]
      dy == p2[2] - p1[2]
      dot == (p[1] - p1[1]) * dx + (p[2] - p1[2]) * dy
      len == dx * dx + dy * dy
      cross == (p[1] - p1[1]) * dy - (p[2] - p1[2]) * dx
  IN  IF dx = 0 /\ dy = 0 THEN <<SqDist(p, p1), 1>>
      ELSE IF dot > len THEN <<SqDist(p, p2), 1>>
      ELSE IF dot > 0 THEN <<cross * cross, len>>
      ELSE <<SqDist(p, p1), 1>>

\* fraction a exceeds fraction b
Exceeds(a, b) == a[1] * b[2] > b[1] * a[2]

RECURSIVE FarthestFrom(_, _, _, _, _, _)
\* the first index i .. last - 1 whose distance to the segment first-last is
\* the largest one above maxSqDist; 0 when there is none
FarthestFrom(points, first, last, i, index, maxSqDist) ==
  IF i >= last THEN index
  ELSE LET d == SqSegDist(points[i], points[first], points[last])
       IN  IF Exceeds(d, maxSqDist)
           THEN FarthestFrom(points, first, last, i + 1, i, d)
           ELSE FarthestFrom(points, first, last, i + 1, index, maxSqDist)

RECURSIVE SimplifyDPStep(_, _, _, _)
\* the indices kept strictly between first and last
SimplifyDPStep(points, first, last, sqTolerance) ==
  LET index == FarthestFrom(points, first, last, first + 1, 0, <<sqTolerance, 1>>)
  IN  IF index = 0 THEN <<>>
      ELSE (IF index - first > 1 THEN SimplifyDPStep(points, first, index, sqTolerance)
            ELSE <<>>)
           \o <<index>>
           \o (IF last - index > 1 THEN SimplifyDPStep(points, index, last, sqTolerance)
               ELSE <<>>)

SimplifyDouglasPeucker(points, sqTolerance) ==
  LET mid == SimplifyDPStep(points, 1, Len(points), sqTolerance)
  IN  <<points[1]>> \o [k \in 1..Len(mid) |-> points[mid[k]]] \o <<points[Len(points)]>>

\* turf.simplify(line, {tolerance, highQuality})
TurfSimplify(points, tolerance, highQuality) ==
  IF Len(points) <= 2 THEN points
  ELSE SimplifyDouglasPeucker(
         IF highQuality THEN points
         ELSE SimplifyRadialDist(points, tolerance * tolerance),
         tolerance * tolerance)

\* one polyline of simplifyIsolines: none when it has fewer than 2 positions
\* before or after the simplification
SimplifyLine(coords, tolerance, ext) ==
  IF Vertices(coords) < 2 THEN <<>>
  ELSE LET simplifiedCoords ==
             RoundedCoords(TurfSimplify(Positions(coords), tolerance, FALSE), ext)
       IN  IF Len(simplifiedCoords) >= 4 THEN <<simplifiedCoords>> ELSE <<>>

RECURSIVE SimplifyLines(_, _, _, _)
SimplifyLines(lines, j, tolerance, ext) ==
  IF j > Len(lines) THEN <<>>
  ELSE SimplifyLine(lines[j], tolerance, ext) \o SimplifyLines(lines, j + 1, tolerance, ext)

SimplifyIsolines(iso, tolerance, ext) ==
  [k \in 1..Len(iso) |->
     [ele |-> iso[k].ele, lines |-> SimplifyLines(iso[k].lines, 1, tolerance, ext)]]

(***************************************************************************)
(* The contour producer of fetchContourTile after the DEM stage:           *)
(* generateIsolines, simplifyIsolines, splitContours, encodeVectorTile     *)
(***************************************************************************)
\* variant: a zero tolerance is handed to simplifyIsolines too
SimplifyFromZero(simplify) == simplify >= 0

\* simplify && simplify > 0
SimplifyEnabled(simplify) == simplify # 0 /\ simplify > 0

\* variant: the generated isolines are split
GeneratedInput(generated, simplified) == generated

\* the isolines handed to splitContours and to the feature builder
SplitInput(generated, simplified) == simplified

\* unsplit isolines (number[][]) as the feature builder reads them: every
\* polyline is an entry without a terrainType
Unsplit(iso) ==
  [k \in 1..Len(iso) |->
     [ele |-> iso[k].ele,
      segments |-> [j \in 1..Len(iso[k].lines) |-> [geometry |-> iso[k].lines[j]]]]]

\* variant: the keys ele and level whatever the options
PropertiesFixedKeys(f, elevationKey, levelKey) ==
  ("terrain_type" :> f.terrain_type) @@ ("divisor" :> f.divisor)
    @@ ("level" :> f.level) @@ ("ele" :> f.ele)

\* the properties object of a feature: a later key replaces an equal earlier one
PropertiesOf(f, elevationKey, levelKey) ==
  ("terrain_type" :> f.terrain_type) @@ ("divisor" :> f.divisor)
    @@ (levelKey :> f.level) @@ (elevationKey :> f.ele)

\* the tolerances of the simplify option
Tolerances == {-1, 0, 1}

KeyPairs == {<<"ele", "level">>, <<"height", "terrain_type">>}

ProducerOptions ==
  {[simplify |-> t, splitMode |-> m, elevationKey |-> k[1], levelKey |-> k[2]] :
     t \in Tolerances, m \in {"classic", "no-split"}, k \in KeyPairs}

\* the isoline sets generateIsolines may return: two elevations, the first
\* with a polyline of at most two runs
GeneratedIsolines == {IsolinesOf(runs) : runs \in {r \in RunSeqs : Len(r) <= 2}}

PipeInit ==
  /\ maxzoom = 0
  /\ vectorEnabled \in BOOLEAN
  /\ CachesEmpty
  /\ FunctionIdle
  /\ splitter \in {1, 2}
  /\ isolines = <<>>
  /\ polygons = <<>>
  /\ extent = 32
  /\ zoom = 14
  /\ result = <<>>
  /\ levels = <<100, 200>>
  /\ features = <<>>
  /\ options \in ProducerOptions
  /\ simplifiedIsolines = <<>>
  /\ pc = "generate"
  /\ vectorFetches = 0

\* const isolines = generateIsolines(levels[0], virtualTile, extent, buffer)
GenerateIsolines ==
  /\ pc = "generate"
  /\ isolines' \in GeneratedIsolines
  /\ pc' = "simplify"
  /\ UNCHANGED <<mvars, fvars, splitter, polygons, extent, zoom, result, levels, features,
                 options, simplifiedIsolines, vectorFetches>>

\* simplifiedIsolines = isolines, or simplifyIsolines(isolines, simplify, extent)
SimplifyStep ==
  /\ pc = "simplify"
  /\ simplifiedIsolines' = IF SimplifyEnabled(options.simplify)
                           THEN SimplifyIsolines(isolines, options.simplify, extent)
                           ELSE isolines
  /\ pc' = "split"
  /\ UNCHANGED <<mvars, fvars, splitter, isolines, polygons, extent, zoom, result, levels,
                 features, options, vectorFetches>>

\* the choice on splitMode: unsplit isolines, or await this.fetchVectorTile
SplitStep ==
  /\ pc = "split"
  /\ IF options.splitMode = "no-split"
     THEN /\ result' = Unsplit(SplitInput(isolines, simplifiedIsolines))
          /\ pc' = "encode"
          /\ UNCHANGED vectorFetches
     ELSE IF WantsVector(options)
     THEN /\ vectorFetches' = vectorFetches + 1
          /\ pc' = "vector"
          /\ UNCHANGED result
     ELSE /\ result' = Unsplit(SplitInput(isolines, simplifiedIsolines))
          /\ pc' = "encode"
          /\ UNCHANGED vectorFetches
  /\ UNCHANGED <<mvars, fvars, splitter, isolines, polygons, extent, zoom, levels, features,
                 options, simplifiedIsolines>>

\* fetchVectorTile resolved with the polygons of the vector tile
VectorTileResolved ==
  /\ pc = "vector"
  /\ polygons' \in PolygonLists
  /\ result' = SplitContours(splitter, SplitInput(isolines, simplifiedIsolines),
                             polygons', extent, zoom)
  /\ pc' = "encode"
  /\ UNCHANGED <<mvars, fvars, splitter, isolines, extent, zoom, levels, features,
                 options, simplifiedIsolines, vectorFetches>>

\* fetchVectorTile rejected: catch (error), every polyline is marked normal
VectorTileRejected ==
  /\ pc = "vector"
  /\ result' = SplitContours(splitter, SplitInput(isolines, simplifiedIsolines),
                             <<>>, extent, zoom)
  /\ pc' = "encode"
  /\ UNCHANGED <<mvars, fvars, splitter, isolines, polygons, extent, zoom, levels, features,
                 options, simplifiedIsolines, vectorFetches>>

\* encodeVectorTile({extent, layers: {[contourLayer]: {features: ...}}})
EncodeStep ==
  /\ pc = "encode"
  /\ features' = CreateFeaturesFromIsolines(result, levels)
  /\ pc' = "done"
  /\ UNCHANGED <<mvars, fvars, splitter, isolines, polygons, extent, zoom, result, levels,
                 options, simplifiedIsolines, vectorFetches>>

PipeNext ==
  \/ GenerateIsolines
  \/ SimplifyStep
  \/ SplitStep
  \/ VectorTileResolved
  \/ VectorTileRejected
  \/ EncodeStep

PipeSpec == PipeInit /\ [][PipeNext]_vars

\* C13: with simplify = 0, or any tolerance <= 0, the isoline set that
\* reaches splitting and encoding is the generated one: same elevations,
\* same polylines, same vertices.
C13_ZeroToleranceIdentity ==
  (pc \in {"split", "vector", "encode", "done"} /\ options.simplify <= 0) =>
     /\ simplifiedIsolines = isolines
     /\ SplitInput(isolines, simplifiedIsolines) = isolines

\* the producer went past the simplification step with a zero tolerance, on
\* a polyline that a positive tolerance would thin out
C13_Witness ==
  /\ pc = "done"
  /\ options.simplify = 0
  /\ simplifiedIsolines = isolines
  /\ SimplifyIsolines(isolines, 1, extent) # isolines

(***************************************************************************)
(* simplifyIsolines on its own                                             *)
(***************************************************************************)
MaxPoints == 4

\* the vertices of the polylines handed to simplifyIsolines
GridPoints == {0, 5, 10} \X {0, 2, 4}

RECURSIVE Flatten(_, _)
\* the flat coordinate array of the positions k .. of ps
Flatten(ps, k) == IF k > Len(ps) THEN <<>> ELSE ps[k] \o Flatten(ps, k + 1)

GridLines == {Flatten(ps, 1) : ps \in UNION {[1..n -> GridPoints] : n \in 2..MaxPoints}}

SimplifyInit ==
  /\ maxzoom = 0
  /\ vectorEnabled = TRUE
  /\ CachesEmpty
  /\ FunctionIdle
  /\ splitter = 0
  /\ isolines \in {<<[ele |-> 100, lines |-> <<line>>]>> : line \in GridLines}
  /\ polygons = <<>>
  /\ extent = 32
  /\ zoom = 0
  /\ result = <<>>
  /\ levels = <<>>
  /\ features = <<>>
  /\ options \in {[DefaultOptions EXCEPT !.simplify = t] : t \in {1, 3}}
  /\ simplifiedIsolines = <<>>
  /\ pc = "simplify"
  /\ vectorFetches = 0

SimplifyNext == SimplifyStep

SimplifySpec == SimplifyInit /\ [][SimplifyNext]_vars

\* position p lies within tolerance of the polyline through ps
WithinTolerance(p, ps, tolerance) ==
  \E k \in 1..(Len(ps) - 1) :
    ~Exceeds(SqSegDist(p, ps[k], ps[k + 1]), <<tolerance * tolerance, 1>>)

\* C14: simplifier fidelity: the simplified polyline keeps the first and the
\* last vertex, and every vertex of the polyline lies within the tolerance of
\* the simplified polyline.
C14_SimplifierFidelity ==
  pc = "split" =>
    \A k \in 1..Len(isolines) :
      \A j \in 1..Len(isolines[k].lines) :
        LET before == Positions(isolines[k].lines[j])
            after == Positions(simplifiedIsolines[k].lines[j])
        IN  /\ after[1] = before[1]
            /\ after[Len(after)] = before[Len(before)]
            /\ \A i \in 1..Len(before) :
                 WithinTolerance(before[i], after, options.simplify)

\* the order of the steps of one contour producer
StepOrder ==
  { <<"generate", "simplify">>, <<"simplify", "split">>, <<"split", "vector">>,
    <<"split", "encode">>, <<"vector", "encode">>, <<"encode", "done">> }

\* what the simplification step makes of the generated isolines
SimplifiedOf(generated) ==
  IF options.simplify > 0 THEN SimplifyIsolines(generated, options.simplify, extent)
  ELSE generated

\* the geometries of the entries of one elevation, in order
Geometries(segments) == [j \in 1..Len(segments) |-> segments[j].geometry]

RECURSIVE AllGeometries(_, _)
\* the geometries of the elevations k .. of a final isoline set, in order
AllGeometries(final, k) ==
  IF k > Len(final) THEN <<>>
  ELSE Geometries(final[k].segments) \o AllGeometries(final, k + 1)

\* C15: the steps of a request run in the order generate, simplify, split,
\* encode; when terrain splitting runs its input is the simplified isoline
\* set of the request, and the features carry the geometries of the split
\* result unchanged.
C15_StepOrder ==
  [][ /\ pc' # pc => <<pc, pc'>> \in StepOrder
      /\ (pc = "vector" /\ pc' = "encode") =>
            \E ps \in {polygons', <<>>} :
              result' = SplitContours(splitter, SimplifiedOf(isolines), ps, extent, zoom)
      /\ pc # "simplify" => simplifiedIsolines' = simplifiedIsolines
      /\ pc' = "done" =>
            [j \in 1..Len(features') |-> features'[j].geometry[1]]
              = AllGeometries(result, 1) ]_vars

\* terrain splitting ran on isolines that the simplification had thinned
\* out, cut a polyline, and the tile was encoded
C15_Witness ==
  /\ pc = "done"
  /\ options.simplify > 0
  /\ simplifiedIsolines # isolines
  /\ Len(polygons) > 0
  /\ Len(result[1].segments) >= 2

\* C16: with splitMode no-split, or with splitMode classic and no vector
\* tile source configured, the producer makes no vector-tile fetch and every
\* feature of the tile has terrain_type normal.
C16_NoSplitNoVectorFetch ==
  (options.splitMode = "no-split" \/ (options.splitMode = "classic" /\ ~vectorEnabled)) =>
     /\ vectorFetches = 0
     /\ pc # "vector"
     /\ \A j \in 1..Len(features) : features[j].terrain_type = "normal"

\* a tile was encoded without splitting although a vector tile source is
\* configured
C16_Witness ==
  /\ pc = "done"
  /\ Len(features) > 0
  /\ options.splitMode = "no-split"
  /\ vectorEnabled

TerrainTypes == {"normal", "glacier", "rock"}

\* C17: every feature of a produced tile carries the configured elevationKey
\* attribute, the configured levelKey attribute and a terrain_type attribute
\* that is one of normal, glacier, rock.
C17_FeatureAttributes ==
  \A j \in 1..Len(features) :
    LET properties == PropertiesOf(features[j], options.elevationKey, options.levelKey)
    IN  /\ {options.elevationKey, options.levelKey, "terrain_type"} \subseteq DOMAIN properties
        /\ properties["terrain_type"] \in TerrainTypes

\* a tile with a glacier feature was encoded under keys other than the
\* default ones
C17_Witness ==
  /\ pc = "done"
  /\ options.elevationKey = "height"
  /\ \E j \in 1..Len(features) : features[j].terrain_type = "glacier"
  /\ \E j \in 1..Len(features) : features[j].terrain_type = "normal"

(***************************************************************************)
(* The orchestrator in front of a vector tile server that never answers:   *)
(* fetchVectorTileRaw awaits fetch(url, {signal}) without withTimeout, so   *)
(* a vector fetch settles only by a response.  Every DEM fetch settles, by  *)
(* a response or by the deadline of withTimeout; decodes and producer       *)
(* continuations are scheduled.                                            *)
(***************************************************************************)
StalledNext ==
  \/ \E r \in Requests : FetchContourTile(r)
  \/ \E r \in Requests : FetchTile(r)
  \/ \E u \in DemTiles : FetchDone(u)
  \/ \E u \in DemTiles : DecodeDone(u)
  \/ \E p \in Requests : ContourAfterDem(p)
  \/ \E p \in Requests : ContourAfterVector(p)
  \/ \E r \in Requests : CancelContour(r)
  \/ \E r \in Requests : CancelTile(r)

StalledSpec ==
  /\ Init
  /\ [][StalledNext]_vars
  /\ \A u \in DemTiles : WF_vars(FetchDone(u))
  /\ \A u \in DemTiles : WF_vars(DecodeDone(u))
  /\ \A p \in Requests : WF_vars(ContourAfterDem(p))
  /\ \A p \in Requests : WF_vars(ContourAfterVector(p))

\* C18: every network fetch is under the timeoutMs deadline, so no request
\* waits forever on a server that does not answer.
C18_NoRequestWaitsForever ==
  \A r \in Requests : Waiting(r) ~> ~Waiting(r)

\* the same without a vector tile source: the DEM deadline alone
C18_DemDeadlineSuffices ==
  \A r \in Requests : (Waiting(r) /\ ~vectorEnabled) ~> ~Waiting(r)

\* no raw cache entry holds the product of a bad response
BadResponseNotCached ==
  \A t \in ReqTiles :
    vectorTileRawCache[t].st = "done" => vectorTileRawCache[t].val # "empty"

\* no request is served a tile by a producer whose vector fetch failed
FailureReported ==
  \A r \in Requests :
    (req[r].kind = "contour" /\ req[r].st = "done" /\ req[r].task # 0)
       => task[req[r].task].vec # "failed"

\* C19: a fetch that ends with a non-2xx response or a network error leaves
\* no entry in any cache and is reported to the caller as a failure.
C19_FailedFetchNotCached == BadResponseNotCached /\ FailureReported

\* request r is the only waiter of the contour entry of its live producer
SoleWaiter(r) ==
  /\ req[r].kind = "contour"
  /\ Waiting(r)
  /\ contourCache[ContourKey(req[r].tile, req[r].opt)].waiting = 1
  /\ Live(req[r].task)

\* C20: when the last waiter of a contour entry cancels, every DEM and vector
\* fetch its producer awaits alone is cancelled through the parsed and the
\* raw cache, and the pending entries of both caches are released.
C20_CancelReleasesFetches ==
  [][ \A r \in Requests :
        (SoleWaiter(r) /\ req'[r].st = "cancelled") =>
           LET p == req[r].task
               t == task[p].tile
           IN  /\ contourCache'[ContourKey(req[r].tile, req[r].opt)].st = "absent"
               /\ \A u \in DemTiles :
                    (/\ task[p].phase = "dem"
                     /\ task[p].dem[u] = "pending"
                     /\ parsedCache[u].waiting = Mult(task[p].tile, task[p].opt, u))
                       => /\ parsedCache'[u].st = "absent"
                          /\ (parseProducer[u] = "fetch" /\ tileCache[u].waiting = 1)
                               => (tileCache'[u].st = "absent" /\ net'[u] = 0)
               /\ (/\ task[p].phase = "vector"
                   /\ task[p].vec = "pending"
                   /\ vectorTileCache[t].waiting = 1)
                     => /\ vectorTileCache'[t].st = "absent"
                        /\ vectorTileRawCache[t].waiting = 1
                             => (vectorTileRawCache'[t].st = "absent" /\ vnet'[t] = 0)
    ]_vars

\* a cancelled request whose DEM fetch was in flight: both cache entries of
\* the url are gone and the fetch is no longer in flight
C20_Witness ==
  \E r \in Requests : \E u \in DemTiles :
    /\ req[r].kind = "contour" /\ req[r].st = "cancelled"
    /\ task[req[r].task].aborted
    /\ task[req[r].task].dem[u] = "cancelled"
    /\ failures = 0
    /\ parsedCache[u].st = "absent"
    /\ tileCache[u].st = "absent"
    /\ net[u] = 0

(***************************************************************************)
(* preprocessPolygons called on its own                                    *)
(***************************************************************************)
\* every state but that of the function called on its own is at rest
Quiescent ==
  /\ maxzoom = 0
  /\ vectorEnabled = TRUE
  /\ req = [r \in Requests |-> NewReq]
  /\ task = [p \in Requests |-> FreeTask]
  /\ contourCache = [k \in ContourKeys |-> NoContourEntry]
  /\ parsedCache = [u \in DemTiles |-> CacheAbsent]
  /\ parseProducer = [u \in DemTiles |-> "none"]
  /\ tileCache = [u \in DemTiles |-> CacheAbsent]
  /\ net = [u \in DemTiles |-> 0]
  /\ vectorTileCache = [t \in ReqTiles |-> CacheAbsent]
  /\ vectorTileRawCache = [t \in ReqTiles |-> CacheAbsent]
  /\ vnet = [t \in ReqTiles |-> 0]
  /\ failures = 0
  /\ SplitterIdle
  /\ ProducerIdle

\* a glacier polygon shaped like an L: the square [0.25, 0.75] x [0.25, 0.75]
\* without its upper right quarter
LShape ==
  [ring |-> << <<Unit \div 4, Unit \div 4>>, <<3 * (Unit \div 4), Unit \div 4>>,
               <<3 * (Unit \div 4), Unit \div 2>>, <<Unit \div 2, Unit \div 2>>,
               <<Unit \div 2, 3 * (Unit \div 4)>>, <<Unit \div 4, 3 * (Unit \div 4)>>,
               <<Unit \div 4, Unit \div 4>> >>,
   terrainType |-> "glacier"]

\* the polygons preprocessPolygons is called with
PrepPolygons == TerrainPolygons \cup {LShape, CentralSquare}

PrepLists ==
  {ps \in UNION {[1..n -> PrepPolygons] : n \in 0..MaxPolygons} :
     \A i, j \in 1..Len(ps) : i # j => ps[i] # ps[j]}

PrepZooms == 11..14

PrepInit ==
  /\ Quiescent
  /\ args \in [cls : {1, 2}, polygons : PrepLists, zoom : PrepZooms]
  /\ returned = <<>>
  /\ virtualTile = <<>>

\* the call preprocessPolygons(polygons, zoom) of class args.cls
PreprocessCall ==
  /\ returned = <<>>
  /\ returned' = <<PreprocessPolygonsOf(args.cls, args.polygons, args.zoom)>>
  /\ UNCHANGED <<mvars, svars, args, virtualTile>>

PrepNext == PreprocessCall

PrepSpec == PrepInit /\ [][PrepNext]_vars

\* the points of a ring
PointsOf(ring) == {ring[i] : i \in 1..Len(ring)}

\* ring is the original or the Douglas-Peucker-simplified ring of an input
\* polygon
RingOfInput(ring) ==
  \E i \in 1..Len(args.polygons) :
    ring \in {args.polygons[i].ring, SimplifyPolygon(args.polygons[i]).ring}

\* C21: at zoom 13 and above every polygon that preprocessPolygons hands on
\* has the original or the Douglas-Peucker-simplified ring of an input
\* polygon, never its convex hull.
C21_NoHullFromZoom13 ==
  (returned # <<>> /\ args.zoom >= 13) =>
     \A i \in 1..Len(returned[1]) : RingOfInput(returned[1][i].ring)

\* the same from zoom 14
C21_NoHullFromZoom14 ==
  (returned # <<>> /\ args.zoom >= 14) =>
     \A i \in 1..Len(returned[1]) : RingOfInput(returned[1][i].ring)

\* the first class never takes a convex hull
C21_FirstClassNoHull ==
  (returned # <<>> /\ args.cls = 1) =>
     \A i \in 1..Len(returned[1]) : RingOfInput(returned[1][i].ring)

\* the hull of the L-shaped polygon differs from it: the inner corner is gone
C21_HullDiffers ==
  /\ PointsOf(ConvexHull(LShape.ring)) = PointsOf(LShape.ring) \ {<<Unit \div 2, Unit \div 2>>}
  /\ ConvexHull(CentralSquare.ring) = CentralSquare.ring

(***************************************************************************)
(* Overlapping polygons                                                    *)
(***************************************************************************)
\* the polyline under test lies strictly inside each of the first two input
\* polygons, which have different terrain types
InsideBoth ==
  /\ Len(polygons) >= 2
  /\ polygons[1].terrainType # polygons[2].terrainType
  /\ \A j \in 1..Vertices(TestLine) :
       LET pos == CoordsToLineString(TestLine, extent)[j]
       IN  StrictlyInside(pos, polygons[1]) /\ StrictlyInside(pos, polygons[2])

\* C22: where a rock polygon and a glacier polygon both contain the vertices
\* of a polyline, its segments carry the type of the polygon listed first.
C22_FirstListedWins ==
  (Split /\ InsideBoth) =>
     \A k \in 1..Len(TestSegments) : TestSegments[k].terrainType = polygons[1].terrainType

\* the same for the second class alone
C22_SecondClassOnly == (splitter = 2) => C22_FirstListedWins

\* the first class answers glacier whatever the order
C22_FirstClassGlacier ==
  (Split /\ InsideBoth /\ splitter = 1) =>
     \A k \in 1..Len(TestSegments) : TestSegments[k].terrainType = "glacier"

(***************************************************************************)
(* Failures of the companion vector tile                                   *)
(***************************************************************************)
\* the vector tile of the producer of request r could not be fetched, or
\* parsed to no polygons
VectorTileUnusable(r) ==
  /\ req[r].kind = "contour"
  /\ req[r].task # 0
  /\ task[req[r].task].vec \in {"failed", "nopolys"}

\* C23: a request whose companion vector tile failed to load or parsed to
\* no polygons does not fail: when it completes, it completes with the tile
\* whose contours are all normal.
C23_VectorFailureNonFatal ==
  [][ \A r \in Requests :
        (Waiting(r) /\ VectorTileUnusable(r) /\ task[req[r].task].phase = "vector") =>
           \/ req'[r].st \in {"waiting", "cancelled"}
           \/ req'[r].st = "done" /\ req'[r].out = "bytesNormal"
    ]_vars

\* a request completed with normal contours after the fetch of its vector
\* tile failed
C23_Witness ==
  \E r \in Requests :
    /\ VectorTileUnusable(r)
    /\ task[req[r].task].vec = "failed"
    /\ req[r].st = "done"
    /\ req[r].out = "bytesNormal"

\* the same after a bad response or a tile without usable polygons
C23_WitnessNoPolygons ==
  \E r \in Requests :
    /\ VectorTileUnusable(r)
    /\ task[req[r].task].vec = "nopolys"
    /\ vectorTileRawCache[req[r].tile].st = "done"
    /\ vectorTileRawCache[req[r].tile].val = "empty"
    /\ req[r].st = "done"
    /\ req[r].out = "bytesNormal"

(***************************************************************************)
(* VectorTileLoader.parseVectorTile called on its own. A decoded tile is   *)
(* a function from layer names to layers; a feature has its geometry type, *)
(* its ring in tile coordinates and properties.type as the pair            *)
(* <<typeof, value>>.                                                      *)
(***************************************************************************)
MaxFeatures == 2

\* variant: the rock list is looked up first
CategorizeRockFirst(loader, typeValue) ==
  IF typeValue \in loader.vectorTerrainTypes.rock THEN "rock"
  ELSE IF typeValue \in loader.vectorTerrainTypes.glacier THEN "glacier"
  ELSE "unknown"

\* categorizeTerrainType(typeValue)
CategorizeTerrainType(loader, typeValue) ==
  IF typeValue \in loader.vectorTerrainTypes.glacier THEN "glacier"
  ELSE IF typeValue \in loader.vectorTerrainTypes.rock THEN "rock"
  ELSE "unknown"

\* normalizeGeometry: point.x / extent, point.y / extent, in units of 1 / Unit
NormalizeGeometry(ring, ext) ==
  [i \in 1..Len(ring) |-> <<ring[i][1] * (Unit \div ext), ring[i][2] * (Unit \div ext)>>]

\* !typeValue || typeof typeValue !== 'string'
NotAString(typeValue) == typeValue[1] # "string" \/ typeValue[2] = ""

RECURSIVE ParseFeaturesFrom(_, _, _)
\* the loop over layer.feature(i), from feature i on
ParseFeaturesFrom(loader, layer, i) ==
  IF i > Len(layer.features) THEN <<>>
  ELSE LET feature == layer.features[i]
           typeValue == feature.properties
           terrainType == CategorizeTerrainType(loader, typeValue[2])
           rest == ParseFeaturesFrom(loader, layer, i + 1)
       IN  IF feature.type # 3 THEN rest
           ELSE IF NotAString(typeValue) THEN rest
           ELSE IF terrainType = "unknown" THEN rest
           ELSE <<[geometry |-> NormalizeGeometry(feature.geometry, layer.extent),
                   properties |-> feature.properties,
                   terrainType |-> terrainType]>> \o rest

\* parseVectorTile(arrayBuffer, z, x, y): a buffer the decoder throws on and
\* a tile without the source layer give no polygons
ParseVectorTileOf(loader, arrayBuffer) ==
  IF arrayBuffer.malformed THEN <<>>
  ELSE IF loader.vectorSourceLayer \notin DOMAIN arrayBuffer.layers THEN <<>>
  ELSE ParseFeaturesFrom(loader, arrayBuffer.layers[loader.vectorSourceLayer], 1)

\* the loaders: the default lists, and lists that share a value
Loaders ==
  {[vectorSourceLayer |-> "natural",
    vectorTerrainTypes |-> [glacier |-> {"ice", "glacier"},
                            rock |-> {"rock", "bare_rock", "scree"}]],
   [vectorSourceLayer |-> "natural",
    vectorTerrainTypes |-> [glacier |-> {"ice", "scree"},
                            rock |-> {"rock", "scree"}]]}

\* the values of properties.type
TypeValues ==
  {<<"undefined", "">>, <<"number", "3">>, <<"string", "">>, <<"string", "ice">>,
   <<"string", "rock">>, <<"string", "scree">>, <<"string", "grass">>}

\* the features: points and polygons, the ring told apart by its corner
FeaturesWith(k) ==
  {[type |-> t, geometry |-> <<<<0, 0>>, <<8 * k, 0>>, <<8 * k, 8 * k>>, <<0, 0>>>>,
    properties |-> v] : t \in {1, 3}, v \in TypeValues}

FeatureLists ==
  UNION {{fs \in [1..n -> UNION {FeaturesWith(k) : k \in 1..n}] :
            \A i \in 1..n : fs[i] \in FeaturesWith(i)} : n \in 0..MaxFeatures}

\* a layer of other features that carry listed values
WaterLayer ==
  [extent |-> 64,
   features |-> <<[type |-> 3, geometry |-> <<<<0, 0>>, <<64, 0>>, <<64, 64>>, <<0, 0>>>>,
                   properties |-> <<"string", "ice">>]>>]

\* the buffers: one the decoder fails on, tiles with only the other layer,
\* tiles with the source layer
ArrayBuffers ==
  {[malformed |-> TRUE, layers |-> <<>>]}
    \cup {[malformed |-> FALSE, layers |-> [n \in {"water"} |-> WaterLayer]]}
    \cup {[malformed |-> FALSE,
           layers |-> [n \in names |-> IF n = "water" THEN WaterLayer
                                        ELSE [extent |-> 64, features |-> fs]]] :
            names \in {{"natural"}, {"natural", "water"}}, fs \in FeatureLists}

ParseInit ==
  /\ Quiescent
  /\ args \in [loader : Loaders, arrayBuffer : ArrayBuffers]
  /\ returned = <<>>
  /\ virtualTile = <<>>

\* the call parseVectorTile(arrayBuffer, z, x, y)
ParseCall ==
  /\ returned = <<>>
  /\ returned' = <<ParseVectorTileOf(args.loader, args.arrayBuffer)>>
  /\ UNCHANGED <<mvars, svars, args, virtualTile>>

ParseNext == ParseCall

ParseSpec == ParseInit /\ [][ParseNext]_vars

\* the features of the configured source layer
SourceFeatures ==
  IF args.arrayBuffer.malformed \/ args.loader.vectorSourceLayer \notin DOMAIN args.arrayBuffer.layers
  THEN <<>>
  ELSE args.arrayBuffer.layers[args.loader.vectorSourceLayer].features

\* layer.extent of the source layer
SourceExtent == args.arrayBuffer.layers[args.loader.vectorSourceLayer].extent

\* a polygon whose type attribute is a string of the glacier or rock list
Listed(feature) ==
  /\ feature.type = 3
  /\ feature.properties[1] = "string"
  /\ feature.properties[2] \in args.loader.vectorTerrainTypes.glacier
                                 \cup args.loader.vectorTerrainTypes.rock

\* C24: parseVectorTile returns, in order, exactly the polygons of the
\* source layer whose type attribute is a string of the glacier or rock
\* list, typed glacier when the value is in the glacier list and rock
\* otherwise; every other feature is discarded.
C24_OnlyListedPolygons ==
  returned # <<>> =>
     LET listed == SelectSeq(SourceFeatures, Listed)
         parsed == returned[1]
     IN  /\ Len(parsed) = Len(listed)
         /\ \A i \in 1..Len(listed) :
              /\ parsed[i].properties = listed[i].properties
              /\ parsed[i].geometry = NormalizeGeometry(listed[i].geometry, SourceExtent)
              /\ parsed[i].terrainType \in {"glacier", "rock"}
              /\ parsed[i].terrainType = "glacier"
                   <=> listed[i].properties[2] \in args.loader.vectorTerrainTypes.glacier

\* a tile with a second layer: a polygon of the source layer whose value is
\* in both lists came back as glacier, another feature was discarded
C24_Witness ==
  /\ returned # <<>>
  /\ ~args.arrayBuffer.malformed
  /\ DOMAIN args.arrayBuffer.layers = {"natural", "water"}
  /\ Len(SourceFeatures) = 2
  /\ Len(returned[1]) = 1
  /\ returned[1][1].properties = <<"string", "scree">>
  /\ "scree" \in args.loader.vectorTerrainTypes.glacier \cap args.loader.vectorTerrainTypes.rock
  /\ returned[1][1].terrainType = "glacier"

(***************************************************************************)
(* LocalDemManager.fetchDem called on its own, with the arithmetic of      *)
(* JavaScript: `1 << n` is a 32-bit shift that uses n modulo 32            *)
(***************************************************************************)
MaxZoom == 3

\* 1 << n for n >= 0: 2^(n mod 32) as a signed 32-bit integer
ShiftLeft(n) ==
  LET count == n % 32
  IN  IF count = 31 THEN -2147483647 - 1 ELSE Pow2(count)

\* Math.floor(a / b) for a >= 0 and b > 0
MathFloorDiv(a, b) == a \div b

\* fetchDem(z, x, y, options, ...): the tile handed to fetchAndParseTile and
\* the arguments of split
FetchDem(z, x, y, overzoom, maxz) ==
  LET demZoom == Min(z - overzoom, maxz)
      subZ == z - demZoom
      div == ShiftLeft(subZ)
  IN  [zoom |-> demZoom, newX |-> MathFloorDiv(x, div), newY |-> MathFloorDiv(y, div),
       subZ |-> subZ, subX |-> JsRem(x, div), subY |-> JsRem(y, div)]

\* the overzoom options: small ones, and ones around the width of the shift
\* (not 31, where the shift gives -2^31)
Overzooms == {0, 1, 2, 3, 30, 32, 33}

DemInit ==
  /\ Quiescent
  /\ args \in UNION {[z : {z}, x : 0..(Pow2(z) - 1), y : 0..(Pow2(z) - 1),
                      overzoom : Overzooms, maxzoom : 0..MaxZoom] : z \in 0..MaxZoom}
  /\ returned = <<>>
  /\ virtualTile = <<>>

\* the call fetchDem(z, x, y, options, ...)
FetchDemCall ==
  /\ returned = <<>>
  /\ returned' = <<FetchDem(args.z, args.x, args.y, args.overzoom, args.maxzoom)>>
  /\ UNCHANGED <<mvars, svars, args, virtualTile>>

DemNext == FetchDemCall

DemSpec == DemInit /\ [][DemNext]_vars

\* 0 <= v < 2^n, also for a negative exponent
BelowPow2(v, n) == v >= 0 /\ (IF n >= 0 THEN v < Pow2(n) ELSE v = 0)

\* a * 2^k + b = v and 0 <= b < 2^k, for 0 <= v < 2^30 and a, b >= 0
Decomposes(v, a, k, b) ==
  IF k <= 30 THEN a * Pow2(k) + b = v /\ b >= 0 /\ b < Pow2(k)
  ELSE a = 0 /\ b = v

\* the tile and the sub-tile fetchDem computes are the ancestor of (z, x, y)
\* at zoom min(z - overzoom, maxzoom) and the position of (x, y) in it
Ancestor ==
  LET d == returned[1]
      k == args.z - d.zoom
  IN  /\ d.zoom = Min(args.z - args.overzoom, args.maxzoom)
      /\ d.subZ = k
      /\ d.newX >= 0 /\ d.newY >= 0
      /\ Decomposes(args.x, d.newX, k, d.subX)
      /\ Decomposes(args.y, d.newY, k, d.subY)
      /\ BelowPow2(d.newX, d.zoom)
      /\ BelowPow2(d.newY, d.zoom)

\* C25 as stated: for every overzoom >= 0 fetchDem fetches the ancestor at
\* zoom z' = min(z - overzoom, maxzoom) and crops it to the sub-tile of
\* (x, y): x' * 2^(z - z') + subX = x, likewise for y, 0 <= x', y' < 2^z'.
C25_AncestorAnyOverzoom ==
  (returned # <<>> /\ args.overzoom >= 0) => Ancestor

\* C25 amended: the same when z - z' is at most 30, the largest count for
\* which `1 << (z - z')` is 2^(z - z').
C25_AncestorUpTo30 ==
  (returned # <<>> /\ args.overzoom >= 0 /\ returned[1].subZ <= 30) => Ancestor

\* a tile of zoom 2 fetched from its parent: the sub-tile is a quarter
C25_Witness ==
  /\ returned # <<>>
  /\ args.z = 2 /\ args.x = 3 /\ args.y = 1
  /\ returned[1].zoom = 1 /\ returned[1].subZ = 1
  /\ returned[1].newX = 1 /\ returned[1].newY = 0
  /\ returned[1].subX = 1 /\ returned[1].subY = 1

(***************************************************************************)
(* The neighbor loop of fetchContourTile, taken on its own: the arguments  *)
(* of the nine fetchDem calls                                              *)
(***************************************************************************)
\* variant: the column is not wrapped
UnwrappedColumn(ix, max) == ix

\* (ix + max) % max
WrappedColumn(ix, max) == JsRem(ix + max, max)

\* neighborPromises after the two loops: for each pushed slot the tile
\* fetchDem is called with, or undefined (1-based: the center is slot 5)
NeighborPromises(z, x, y) ==
  LET max == ShiftLeft(z)
  IN  [i \in 1..9 |->
        LET iy == y - 1 + ((i - 1) \div 3)
            ix == x - 1 + ((i - 1) % 3)
        IN  IF iy < 0 \/ iy >= max THEN Undef
            ELSE <<z, WrappedColumn(ix, max), iy>>]

NeighborInit ==
  /\ Quiescent
  /\ args \in UNION {[z : {z}, x : 0..(Pow2(z) - 1), y : 0..(Pow2(z) - 1)] : z \in 0..MaxZoom}
  /\ returned = <<>>
  /\ virtualTile = <<>>

\* the two loops that fill neighborPromises
NeighborLoop ==
  /\ returned = <<>>
  /\ returned' = <<NeighborPromises(args.z, args.x, args.y)>>
  /\ UNCHANGED <<mvars, svars, args, virtualTile>>

NeighborNext == NeighborLoop

NeighborSpec == NeighborInit /\ [][NeighborNext]_vars

\* the row and the column of slot i (1-based) around tile (x, y)
SlotRow(y, i) == y - 1 + ((i - 1) \div 3)
SlotColumn(x, i) == x - 1 + ((i - 1) % 3)

\* the slots of the orchestrator are the fetchDem tiles of these slots
SlotsOfOrchestrator ==
  \A t \in ReqTiles : \A o \in OptionSet : \A i \in 1..9 :
    LET slot == NeighborPromises(t[1], t[2], t[3])[i]
    IN  NeighborSlots(t, o)[i] =
          IF slot = Undef THEN Undef ELSE FetchDemTile(slot[1], slot[2], slot[3], o)

\* C26: fetchContourTile builds exactly nine neighbor slots in row-major
\* order (rows y-1..y+1, columns x-1..x+1, the center in the middle); a slot
\* whose row is outside [0, 2^z) is undefined and issues no fetch, the column
\* of the others is wrapped modulo 2^z, so every fetch addresses a tile of
\* the z-level grid; the center is the requested tile.
C26_NineNeighborSlots ==
  returned # <<>> =>
    LET slots == returned[1]
        side == Pow2(args.z)
    IN  /\ DOMAIN slots = 1..9
        /\ \A i \in 1..9 :
             LET row == SlotRow(args.y, i)
                 column == SlotColumn(args.x, i)
             IN  /\ (row < 0 \/ row >= side) => slots[i] = Undef
                 /\ (row >= 0 /\ row < side) =>
                      /\ slots[i] = <<args.z, column % side, row>>
                      /\ slots[i] \in TilesAt(args.z)
        /\ slots[CenterSlot] = <<args.z, args.x, args.y>>
        /\ SlotsOfOrchestrator

\* a tile in the north-west corner of the zoom 2 grid: the row above is
\* undefined and the column to the west wraps to the east edge
C26_Witness ==
  /\ returned # <<>>
  /\ args.z = 2 /\ args.x = 0 /\ args.y = 0
  /\ returned[1][1] = Undef /\ returned[1][2] = Undef /\ returned[1][3] = Undef
  /\ returned[1][4] = <<2, 3, 0>>
  /\ returned[1][5] = <<2, 0, 0>>
  /\ returned[1][7] = <<2, 3, 1>>

(***************************************************************************)
(* The resampling step of fetchContourTile, taken on its own.  HeightTile  *)
(* is a width and the border it has been materialized with.                *)
(***************************************************************************)
MaxWidth == 6
MaxBelow == 20

\* HeightTile.subsamplePixelCenters(factor): each cell becomes factor^2 cells
SubsamplePixelCenters(tile, factor) ==
  [tile EXCEPT !.width = @ * factor, !.border = 0]

\* HeightTile.materialize(border): a dense array with the border around it
Materialize(tile, border) == [tile EXCEPT !.border = border]

\* variant: the loop goes on while the width does not exceed subsampleBelow
LoopRunsUpToEqual(tile, subsampleBelow) == tile.width <= subsampleBelow

\* while (virtualTile.width < subsampleBelow)
LoopRuns(tile, subsampleBelow) == tile.width < subsampleBelow

\* if (virtualTile.width >= subsampleBelow), tested once on the combined tile
WideEnough(width, subsampleBelow) == width >= subsampleBelow

ResampleInit ==
  /\ Quiescent
  /\ args \in [width : 1..MaxWidth, subsampleBelow : (-1)..MaxBelow]
  /\ returned = <<>>
  /\ virtualTile = [width |-> args.width, border |-> 0]

\* the `if` branch: the tile is materialized and goes to re-gridding
MaterializeOnly ==
  /\ returned = <<>>
  /\ WideEnough(args.width, args.subsampleBelow)
  /\ virtualTile' = Materialize(virtualTile, 2)
  /\ returned' = <<virtualTile'>>
  /\ UNCHANGED <<mvars, svars, args>>

\* one iteration of the `while` loop of the `else` branch
SubsampleStep ==
  /\ returned = <<>>
  /\ ~WideEnough(args.width, args.subsampleBelow)
  /\ LoopRuns(virtualTile, args.subsampleBelow)
  /\ virtualTile' = Materialize(SubsamplePixelCenters(virtualTile, 2), 2)
  /\ UNCHANGED <<mvars, svars, args, returned>>

\* the `while` loop ends: the tile goes to re-gridding
LoopExit ==
  /\ returned = <<>>
  /\ ~WideEnough(args.width, args.subsampleBelow)
  /\ ~LoopRuns(virtualTile, args.subsampleBelow)
  /\ returned' = <<virtualTile>>
  /\ UNCHANGED <<mvars, svars, args, virtualTile>>

ResampleNext ==
  \/ MaterializeOnly
  \/ SubsampleStep
  \/ LoopExit

\* the producer runs on: a step that can be taken is taken
ResampleSpec ==
  /\ ResampleInit
  /\ [][ResampleNext]_vars
  /\ WF_vars(ResampleNext)

\* the width w doubled the least number of times that makes it >= below
LeastDoubling(w, width, below) ==
  \E k \in 1..MaxBelow :
    /\ width = w * Pow2(k)
    /\ width >= below
    /\ w * Pow2(k - 1) < below

\* the tile that enters re-gridding
Resampled ==
  LET tile == returned[1]
  IN  /\ tile.border = 2
      /\ tile.width >= args.subsampleBelow
      /\ IF args.width >= args.subsampleBelow THEN tile.width = args.width
         ELSE LeastDoubling(args.width, tile.width, args.subsampleBelow)

\* C27: the resampling step terminates for every starting width >= 1 and
\* finite subsampleBelow; a tile already wide enough is only materialized
\* with border 2, a narrower one is doubled the least number of times that
\* makes its width >= subsampleBelow; the width entering re-gridding is
\* >= subsampleBelow.
C27_ResamplingTerminates ==
  /\ <>(returned # <<>>)
  /\ [](returned # <<>> => Resampled)

\* a tile of width 3 under subsampleBelow = 20 went through three doublings
C27_Witness ==
  /\ returned # <<>>
  /\ args.width = 3 /\ args.subsampleBelow = 20
  /\ returned[1].width = 24 /\ returned[1].border = 2

\* a tile of width 5 under subsampleBelow = 5 is materialized as it is
C27_WitnessWideEnough ==
  /\ returned # <<>>
  /\ args.width = 5 /\ args.subsampleBelow = 5
  /\ returned[1].width = 5 /\ returned[1].border = 2

(***************************************************************************)
(* The sampling of splitAtBoundary, taken on its own: the indices of the   *)
(* vertices tested for a polyline of n vertices                            *)
(***************************************************************************)
MaxCoords == 61

SampleInit ==
  /\ Quiescent
  /\ args \in [n : 2..MaxCoords]
  /\ returned = <<>>
  /\ virtualTile = <<>>

\* the sampling loop and the test of the last point
SampleCall ==
  /\ returned = <<>>
  /\ returned' = <<Samples(args.n)>>
  /\ UNCHANGED <<mvars, svars, args, virtualTile>>

SampleNext == SampleCall

SampleSpec == SampleInit /\ [][SampleNext]_vars

\* C28: for a polyline of any length n >= 2 the pre-classification of
\* splitAtBoundary tests at most 20 uniformly spaced vertices plus the last
\* one (at most 21 point-in-polygon tests), the first and the last vertex
\* being always among them.
C28_AtMost21Samples ==
  returned # <<>> =>
    /\ Cardinality(returned[1]) <= 21
    /\ 1 \in returned[1]
    /\ args.n \in returned[1]

\* the first and the last vertex are always tested, and a polyline of fewer
\* than 40 vertices is tested at every vertex
C28_EndsSampled ==
  returned # <<>> =>
    /\ 1 \in returned[1]
    /\ args.n \in returned[1]
    /\ args.n < 40 => returned[1] = 1..args.n

\* no polyline is tested at more than 39 vertices
C28_AtMost39Samples ==
  returned # <<>> => Cardinality(returned[1]) <= 39

\* a polyline of 39 vertices: every vertex is tested
C28_Witness39 ==
  /\ returned # <<>>
  /\ args.n = 39
  /\ Cardinality(returned[1]) = 39

(***************************************************************************)
(* getCandidatePolygonsFromGrid over the index buildGridIndex builds,      *)
(* taken on its own                                                        *)
(***************************************************************************)
MaxGridVertices == 2

\* the coordinates of the polyline vertices, in normalized units: in the
\* buffer before the tile, on the borders of cells, inside a cell, and in
\* the buffer past the tile
GridCoordinates ==
  {-TileUnit, 0, 4 * TileUnit, 8 * TileUnit, 20 * TileUnit, 33 * TileUnit}

GridPositions == GridCoordinates \X GridCoordinates

\* the preprocessed polygons: those of splitContours, the central square and
\* a rock rectangle across the south-east corner of the tile
IndexedPolygons ==
  TerrainPolygons \cup
    {CentralSquare, Rect(30 * TileUnit, 30 * TileUnit, 34 * TileUnit, 34 * TileUnit, "rock")}

IndexedLists ==
  {ps \in UNION {[1..n -> IndexedPolygons] : n \in 0..MaxPolygons} :
     \A i, j \in 1..Len(ps) : i # j => ps[i] # ps[j]}

\* the grid sizes of the two classes: 8 or 4 in the first, 8 in the second
GridSizes == {GridSize1(11), GridSize1(13), GridSize2}

GridInit ==
  /\ Quiescent
  /\ args \in [line : UNION {[1..n -> GridPositions] : n \in 1..MaxGridVertices},
               indexed : IndexedLists,
               gridSize : GridSizes]
  /\ returned = <<>>
  /\ virtualTile = <<>>

\* the call getCandidatePolygonsFromGrid(line, buildGridIndex(indexed, zoom))
GridCall ==
  /\ returned = <<>>
  /\ returned' = <<GetCandidatePolygonsFromGrid(args.line, args.indexed, args.gridSize)>>
  /\ UNCHANGED <<mvars, svars, args, virtualTile>>

GridNext == GridCall

GridSpec == GridInit /\ [][GridNext]_vars

\* pos lies inside the bounding box of polygon
InBbox(pos, polygon) ==
  LET b == Bbox(polygon.ring)
  IN  b[1] <= pos[1] /\ pos[1] <= b[3] /\ b[2] <= pos[2] /\ pos[2] <= b[4]

\* the elements of a sequence
Range(seq) == {seq[i] : i \in 1..Len(seq)}

\* C29: the grid index never changes which polygons can classify a vertex:
\* every preprocessed polygon whose bounding box holds a vertex of the
\* polyline is among the candidates, so the terrain type of every vertex
\* computed from the candidates is the one computed from all polygons, also
\* for vertices in the tile buffer.
C29_GridKeepsCandidates ==
  returned # <<>> =>
    /\ \A q \in Range(args.indexed) :
         (\E i \in 1..Len(args.line) : InBbox(args.line[i], q)) => q \in Range(returned[1])
    /\ Range(returned[1]) \subseteq Range(args.indexed)
    /\ PointTypes(args.line, returned[1]) = PointTypes(args.line, args.indexed)

\* a polyline from the buffer above the tile to the buffer past its
\* south-east corner: the tiny glacier square and the corner rectangle are
\* the candidates, in cells -1 and 8 of the 8x8 grid
C29_Witness ==
  /\ returned # <<>>
  /\ args.gridSize = GridSize2
  /\ args.line = <<<<0, -TileUnit>>, <<33 * TileUnit, 33 * TileUnit>>>>
  /\ Len(args.indexed) = 2
  /\ Len(returned[1]) = 2
  /\ PointTypes(args.line, returned[1]) = <<"glacier", "rock">>

(***************************************************************************)
(* The shape of the output of splitContours                                *)
(***************************************************************************)
\* each segment after the first starts with the last vertex of the one
\* before it
SharesBoundaries(segs) ==
  \A k \in 2..Len(segs) :
    VertexAt(segs[k].geometry, 1)
      = VertexAt(segs[k - 1].geometry, Vertices(segs[k - 1].geometry))

\* every emitted segment has at least 2 vertices
C30_SegmentsHaveTwoVertices ==
  Split =>
    \A k \in 1..Len(result) : \A j \in 1..Len(result[k].segments) :
      Vertices(result[k].segments[j].geometry) >= 2

\* the output has exactly the elevation keys of the input, and every
\* elevation at least one segment for each of its polylines
C30_KeysAndSegments ==
  Split =>
    /\ Len(result) = Len(isolines)
    /\ \A k \in 1..Len(result) :
         /\ result[k].ele = isolines[k].ele
         /\ Len(result[k].segments) >= Len(isolines[k].lines)

\* every polyline ends some segment of its elevation: the segment walked
\* last, or the one closed at its last vertex
EveryLineEndsASegment ==
  \A k \in 1..Len(result) : \A l \in 1..Len(isolines[k].lines) :
    LET coords == isolines[k].lines[l]
    IN  \E j \in 1..Len(result[k].segments) :
          LET geometry == result[k].segments[j].geometry
          IN  VertexAt(geometry, Vertices(geometry)) = VertexAt(coords, Vertices(coords))

\* C30: for every input polyline with at least 2 vertices, every segment
\* splitContours emits has at least 2 vertices, each input polyline yields at
\* least one segment, consecutive segments of the same polyline share their
\* boundary vertex, and the output has exactly the elevation keys of the
\* input.
C30_WellFormedOutput ==
  /\ C30_SegmentsHaveTwoVertices
  /\ C30_KeysAndSegments
  /\ Split => (SharesBoundaries(TestSegments) /\ EveryLineEndsASegment)

\* the second class cut a polyline into three segments of alternating types
C30_Witness ==
  /\ Split
  /\ splitter = 2
  /\ Len(TestSegments) = 3
  /\ TestSegments[1].terrainType # TestSegments[2].terrainType
  /\ TestSegments[2].terrainType # TestSegments[3].terrainType
  /\ Len(result[2].segments) = 2

\* the first class cut a polyline into two segments
C30_WitnessFirstClass ==
  /\ Split
  /\ splitter = 1
  /\ Len(TestSegments) = 2
  /\ TestSegments[1].terrainType # TestSegments[2].terrainType

====
